---- MODULE Spec2Model ----
(***************************************************************************)
(* PixelForge: the editor state of App (the useReducer reducer with its    *)
(* bounded undo/redo history), the handlers of App that dispatch to it,    *)
(* and the pointer gestures of Workspace.                                  *)
(*                                                                         *)
(* Encoding.  A layer is a record with the fields of types.ts Layer that   *)
(* the operations read or write; an optional field holds <<>> when absent. *)
(* A layer id is the integer Date.now() returned; NullId stands for null.  *)
(* An HTMLCanvasElement is a reference (an index into canvases); the       *)
(* raster content of a canvas is the set of its painted points.  Pointer   *)
(* events arrive with zoom 1 and pan (0, 0), at points where the geometry  *)
(* of the handlers is exact in the integers.                               *)
(* history is the 1-based sequence of the 0-based array of the source:     *)
(* the entry at the cursor is history[historyIndex + 1].                   *)
(***************************************************************************)
EXTENDS Integers, Sequences, FiniteSets, TLC

VARIABLES
    state,      \* EditorState: the value held by useReducer (App)
    canvases,   \* the heap of HTMLCanvasElement objects, by reference
    now,        \* the last value Date.now() returned
    ws,         \* the useState hooks of Workspace (interaction state)
    lastOp,     \* observation: the last action dispatched
    obs,        \* observation: counts of pushHistory calls, UNDOs and REDOs
    log,        \* observation: the layer list after each commit of the run
    snaps,      \* observation: raster content of each history entry when pushed
    gesture,    \* observation: the pointer gesture in progress or just released
    sharedBufferCanvas, \* canvasUtils: the scratch canvas of renderCanvas
    screen,     \* the canvas of Workspace and the last render pass into it
    imgData     \* the ImageData a pixel effect was last applied to

vars == <<state, canvases, now, ws, lastOp, obs, log, snaps, gesture,
          sharedBufferCanvas, screen, imgData>>

----------------------------------------------------------------------------
(* Bounds of the model *)

MaxLayers == 3
MaxClock == 4
MaxCommits == 3
MaxHistCommits == 21
MaxPrunes == 1
MaxMoves == 1
MaxGestureCommits == 3
MaxGestureLayers == 1
MaxCopyCommits == 4
MaxCopyLayers == 2
MaxCropCommits == 4
MaxTextCommits == 3
MaxReorderCommits == 5
MaxWarpCommits == 5
MaxWarpLayers == 2
MaxTextLayers == 1
MaxRenderCommits == 5
MaxRenderLayers == 1
MaxEffectsCommits == 5
MaxEffectsLayers == 2
MaxQuadCommits == 3
MaxQuadLayers == 2
MaxBufferCommits == 3
MaxBufferLayers == 2
MaxResizeCommits == 2
MaxResizeLayers == 1
MaxLockCommits == 3
MaxLockLayers == 1
MaxGlitchWidth == 3
MaxGlitchHeight == 3
MaxGlitchOffset == 3

(* Program constants *)

HISTORY_LIMIT == 20
DUP_OFFSET == 20

NullId == 0

Abs(a) == IF a < 0 THEN -a ELSE a

----------------------------------------------------------------------------
(* types.ts *)

DEFAULT_FILTERS ==
    [brightness |-> 100, contrast |-> 100, saturation |-> 100, blur |-> 0,
     sepia |-> 0, grayscale |-> 0, hueRotate |-> 0]

\* dropShadow.opacity is kept in hundredths (0.5 is 50)
DEFAULT_EFFECTS ==
    [dropShadow |-> [enabled |-> FALSE, color |-> "#000000", blur |-> 10,
                     x |-> 5, y |-> 5, opacity |-> 50],
     vignette   |-> [enabled |-> FALSE, amount |-> 50, size |-> 50],
     pixelate   |-> [enabled |-> FALSE, blockSize |-> 10],
     scanlines  |-> [enabled |-> FALSE, intensity |-> 20, spacing |-> 4],
     glitch     |-> [enabled |-> FALSE, offset |-> 10]]

\* Layer.opacity is kept in hundredths (1 is 100). Layer.text is kept as the
\* sequence of the lengths of its lines: <<>> is an undefined text, <<0>> the
\* empty string, <<8>> 'New Text'. An undefined fontSize or textStrokeWidth
\* is 0, which the code treats alike (|| 24, || 0).
NewLayer(id, type, x, y, w, h, canvas) ==
    [id |-> id, type |-> type, visible |-> TRUE, locked |-> FALSE,
     opacity |-> 100, x |-> x, y |-> y, width |-> w, height |-> h,
     rotation |-> 0, warpPoints |-> <<>>, imageElement |-> canvas,
     text |-> <<>>, fontSize |-> 0, textStrokeWidth |-> 0,
     filters |-> DEFAULT_FILTERS, effects |-> DEFAULT_EFFECTS]

initialState ==
    [layers |-> <<>>,
     activeLayerId |-> NullId,
     tool |-> "move",
     canvasSize |-> [width |-> 800, height |-> 600],
     selectionPath |-> <<>>,
     history |-> << <<>> >>,
     historyIndex |-> 0]

----------------------------------------------------------------------------
(* Array helpers of the reducer *)

\* Array.prototype.findIndex(l => l.id === id), 1-based; 0 when absent (-1)
FindIndex(layers, id) ==
    IF \E i \in 1..Len(layers) : layers[i].id = id
    THEN CHOOSE i \in 1..Len(layers) :
            /\ layers[i].id = id
            /\ \A j \in 1..(i - 1) : layers[j].id # id
    ELSE 0

\* Array.prototype.filter(l => l.id !== id)
RECURSIVE FilterOut(_, _)
FilterOut(layers, id) ==
    IF layers = <<>> THEN <<>>
    ELSE IF Head(layers).id = id THEN FilterOut(Tail(layers), id)
    ELSE <<Head(layers)>> \o FilterOut(Tail(layers), id)

\* { ...l, ...changes }
Merge(l, changes) ==
    [k \in DOMAIN l |-> IF k \in DOMAIN changes THEN changes[k] ELSE l[k]]

\* JSON.parse(JSON.stringify(effects)): a structural copy, group by group
\* and field by field (every effect parameter is a finite number, a boolean
\* or a string, which JSON keeps)
JsonClone(effects) ==
    [g \in DOMAIN effects |-> [k \in DOMAIN effects[g] |-> effects[g][k]]]

LayerIds(layers) == {layers[i].id : i \in 1..Len(layers)}

----------------------------------------------------------------------------
(* canvasUtils.ts: canvases *)

\* a canvas holds its size, its painted points (ink) and the points of the
\* current path of its 2d context
createOffscreenLayer(width, height) ==
    [width |-> width, height |-> height, ink |-> {}, path |-> <<>>]

\* ctx.drawImage(src, 0, 0) into a fresh canvas dst: the part of src that
\* lies inside dst, unscaled
DrawImageAtOrigin(dst, src) ==
    [dst EXCEPT !.ink = {p \in src.ink : p[1] < dst.width /\ p[2] < dst.height}]

----------------------------------------------------------------------------
(* App: reducer *)

\* (mutant) the limit test is >= instead of >
historyPushOffByOne(history, historyIndex, entry) ==
    LET newHistory == Append(SubSeq(history, 1, historyIndex + 1), entry)
    IN  IF Len(newHistory) >= HISTORY_LIMIT THEN Tail(newHistory) ELSE newHistory

\* (mutant) the entries beyond the cursor are kept
historyPushNoPrune(history, historyIndex, entry) ==
    LET newHistory == Append(history, entry)
    IN  IF Len(newHistory) > HISTORY_LIMIT THEN Tail(newHistory) ELSE newHistory

\* (mutant) pop instead of shift: the newest entry is dropped at the limit
historyPushEvictNewest(history, historyIndex, entry) ==
    LET newHistory == Append(SubSeq(history, 1, historyIndex + 1), entry)
    IN  IF Len(newHistory) > HISTORY_LIMIT
        THEN SubSeq(newHistory, 1, Len(newHistory) - 1) ELSE newHistory

\* newHistory = history.slice(0, historyIndex + 1); push(entry); shift when
\* longer than the limit
historyPush(history, historyIndex, entry) ==
    LET newHistory == Append(SubSeq(history, 1, historyIndex + 1), entry)
    IN  IF Len(newHistory) > HISTORY_LIMIT THEN Tail(newHistory) ELSE newHistory

pushHistory(st, newState) ==
    LET newHistory == historyPush(st.history, st.historyIndex, newState.layers)
    IN  [newState EXCEPT !.history = newHistory,
                         !.historyIndex = Len(newHistory) - 1]

\* (mutant) the cursor moves and the layers are not restored
undoKeepsLayers(st) ==
    IF st.historyIndex > 0
    THEN [st EXCEPT !.historyIndex = st.historyIndex - 1]
    ELSE st

\* (mutant) the entry at the cursor is restored instead of the one before
undoOffByOne(st) ==
    IF st.historyIndex > 0
    THEN [st EXCEPT !.layers = st.history[st.historyIndex + 1],
                    !.historyIndex = st.historyIndex - 1]
    ELSE st

\* (mutant) UNDO puts the canvas back to its first size as well
undoResetsCanvas(st) ==
    IF st.historyIndex > 0
    THEN [st EXCEPT !.layers = st.history[(st.historyIndex - 1) + 1],
                    !.historyIndex = st.historyIndex - 1,
                    !.canvasSize = [width |-> 800, height |-> 600]]
    ELSE st

undo(st) ==
    IF st.historyIndex > 0
    THEN [st EXCEPT !.layers = st.history[(st.historyIndex - 1) + 1],
                    !.historyIndex = st.historyIndex - 1]
    ELSE st

redo(st) ==
    IF st.historyIndex < Len(st.history) - 1
    THEN [st EXCEPT !.layers = st.history[(st.historyIndex + 1) + 1],
                    !.historyIndex = st.historyIndex + 1]
    ELSE st

addLayer(st, layer) ==
    [st EXCEPT !.layers = <<layer>> \o st.layers,
               !.activeLayerId = layer.id]

\* state.layers[1] of the source is the second layer of the list
removeLayer(st, id) ==
    [st EXCEPT !.layers = FilterOut(st.layers, id),
               !.activeLayerId =
                   IF st.activeLayerId = id
                   THEN (IF Len(st.layers) >= 2 THEN st.layers[2].id ELSE NullId)
                   ELSE st.activeLayerId]

\* (mutant) the copy gets the default effects instead of the source's
duplicateOfDefaultEffects(layerToDup, env) ==
    [layerToDup EXCEPT
        !.id = env.now,
        !.x = layerToDup.x + DUP_OFFSET,
        !.y = layerToDup.y + DUP_OFFSET,
        !.effects = DEFAULT_EFFECTS,
        !.imageElement = IF layerToDup.imageElement # 0 THEN env.canvas ELSE 0]

\* the copy made of layerToDup; env.now is Date.now(), env.canvas the
\* reference of the canvas createOffscreenLayer returns
duplicateOf(layerToDup, env) ==
    [layerToDup EXCEPT
        !.id = env.now,
        !.x = layerToDup.x + DUP_OFFSET,
        !.y = layerToDup.y + DUP_OFFSET,
        !.filters = [k \in DOMAIN layerToDup.filters |-> layerToDup.filters[k]],
        !.effects = JsonClone(layerToDup.effects),
        !.imageElement = IF layerToDup.imageElement # 0 THEN env.canvas ELSE 0]

duplicateLayer(st, id, env) ==
    LET i == FindIndex(st.layers, id)
    IN  IF i # 0
        THEN LET newLayer == duplicateOf(st.layers[i], env)
             IN  [st EXCEPT !.layers = <<newLayer>> \o st.layers,
                            !.activeLayerId = newLayer.id]
        ELSE st

\* (mutant) the changes are merged into every layer
updateLayerEveryLayer(st, id, changes) ==
    [st EXCEPT !.layers =
        [i \in 1..Len(st.layers) |-> Merge(st.layers[i], changes)]]

updateLayer(st, id, changes) ==
    [st EXCEPT !.layers =
        [i \in 1..Len(st.layers) |->
            IF st.layers[i].id = id THEN Merge(st.layers[i], changes)
            ELSE st.layers[i]]]

\* (mutant) 'up' moves the layer towards the end of the list
reorderLayerUpIsDown(st, id, direction) ==
    LET currentIndex == FindIndex(st.layers, id)
        swapIndex == IF direction = "up" THEN currentIndex + 1 ELSE currentIndex - 1
    IN  IF swapIndex >= 1 /\ swapIndex <= Len(st.layers)
        THEN [st EXCEPT !.layers =
                [i \in 1..Len(st.layers) |->
                    IF i = currentIndex THEN st.layers[swapIndex]
                    ELSE IF i = swapIndex THEN st.layers[currentIndex]
                    ELSE st.layers[i]]]
        ELSE st

\* only reached when the id is in the list (the reducer returns before)
reorderLayer(st, id, direction) ==
    LET currentIndex == FindIndex(st.layers, id)
        swapIndex == IF direction = "up" THEN currentIndex - 1 ELSE currentIndex + 1
    IN  IF swapIndex >= 1 /\ swapIndex <= Len(st.layers)
        THEN [st EXCEPT !.layers =
                [i \in 1..Len(st.layers) |->
                    IF i = currentIndex THEN st.layers[swapIndex]
                    ELSE IF i = swapIndex THEN st.layers[currentIndex]
                    ELSE st.layers[i]]]
        ELSE st

setCanvasSize(st, size) ==
    [st EXCEPT !.canvasSize = size]

\* (mutant) the layers are moved by the far corner of the rectangle
cropCanvasFarCorner(st, rect) ==
    [st EXCEPT !.canvasSize = [width |-> rect.width, height |-> rect.height],
               !.layers = [i \in 1..Len(st.layers) |->
                              [st.layers[i] EXCEPT
                                  !.x = st.layers[i].x - (rect.x + rect.width),
                                  !.y = st.layers[i].y - rect.y]],
               !.tool = "move"]

\* (mutant) CROP_CANVAS moves the warp quad with the layer
cropCanvasMovesQuad(st, rect) ==
    [st EXCEPT !.canvasSize = [width |-> rect.width, height |-> rect.height],
               !.layers = [i \in 1..Len(st.layers) |->
                              [st.layers[i] EXCEPT
                                  !.x = st.layers[i].x - rect.x,
                                  !.y = st.layers[i].y - rect.y,
                                  !.warpPoints =
                                      IF @ = <<>> THEN @
                                      ELSE [h \in DOMAIN @ |->
                                              <<@[h][1] - rect.x, @[h][2] - rect.y>>]]],
               !.tool = "move"]

cropCanvas(st, rect) ==
    [st EXCEPT !.canvasSize = [width |-> rect.width, height |-> rect.height],
               !.layers = [i \in 1..Len(st.layers) |->
                              [st.layers[i] EXCEPT !.x = st.layers[i].x - rect.x,
                                                   !.y = st.layers[i].y - rect.y]],
               !.tool = "move"]

setLayerFilter(st, layerId, filter, value) ==
    [st EXCEPT !.layers =
        [i \in 1..Len(st.layers) |->
            IF st.layers[i].id = layerId
            THEN [st.layers[i] EXCEPT !.filters[filter] = value]
            ELSE st.layers[i]]]

updateLayerEffect(st, layerId, effectGroup, changes) ==
    [st EXCEPT !.layers =
        [i \in 1..Len(st.layers) |->
            IF st.layers[i].id = layerId
            THEN [st.layers[i] EXCEPT !.effects[effectGroup] = changes]
            ELSE st.layers[i]]]

\* the first switch: actions that return without pushHistory
NoHistoryTypes ==
    {"UNDO", "REDO", "SET_TOOL", "SELECT_LAYER", "SET_SELECTION_PATH"}

\* whether reducer(st, action) ends in "return pushHistory(nextState)"
CommitsHistory(st, action) ==
    /\ action.type \notin NoHistoryTypes
    /\ ~(action.type = "REORDER_LAYER" /\ FindIndex(st.layers, action.id) = 0)

\* the second switch: nextState before pushHistory
nextStateOf(st, action, env) ==
    CASE action.type = "ADD_LAYER" -> addLayer(st, action.layer)
      [] action.type = "REMOVE_LAYER" -> removeLayer(st, action.id)
      [] action.type = "DUPLICATE_LAYER" -> duplicateLayer(st, action.id, env)
      [] action.type = "UPDATE_LAYER" -> updateLayer(st, action.id, action.changes)
      [] action.type = "REORDER_LAYER" -> reorderLayer(st, action.id, action.direction)
      [] action.type = "SET_CANVAS_SIZE" -> setCanvasSize(st, action.size)
      [] action.type = "CROP_CANVAS" -> cropCanvas(st, action.rect)
      [] action.type = "SET_LAYER_FILTER" ->
            setLayerFilter(st, action.id, action.filter, action.value)
      [] action.type = "UPDATE_LAYER_EFFECT" ->
            updateLayerEffect(st, action.id, action.effectGroup, action.changes)
      [] action.type = "PUSH_HISTORY" -> st

reducer(st, action, env) ==
    CASE action.type = "UNDO" -> undo(st)
      [] action.type = "REDO" -> redo(st)
      [] action.type = "SET_TOOL" -> [st EXCEPT !.tool = action.tool]
      [] action.type = "SELECT_LAYER" -> [st EXCEPT !.activeLayerId = action.id]
      [] action.type = "SET_SELECTION_PATH" -> [st EXCEPT !.selectionPath = action.path]
      [] OTHER ->
            IF CommitsHistory(st, action)
            THEN pushHistory(st, nextStateOf(st, action, env))
            ELSE st

\* the canvases after reducer(st, action): DUPLICATE_LAYER of a layer that
\* holds a canvas allocates a canvas of the layer's size and draws the
\* source canvas into it
heapAfter(st, heap, action) ==
    IF action.type = "DUPLICATE_LAYER" /\ FindIndex(st.layers, action.id) # 0
    THEN LET l == st.layers[FindIndex(st.layers, action.id)]
         IN  IF l.imageElement # 0
             THEN Append(heap, DrawImageAtOrigin(
                                  createOffscreenLayer(l.width, l.height),
                                  heap[l.imageElement]))
             ELSE heap
    ELSE heap

----------------------------------------------------------------------------
(* Observation of a run *)

\* the raster content the layers of a list show, layer by layer
Raster(layers, heap) ==
    [i \in 1..Len(layers) |->
        IF layers[i].imageElement = 0 THEN {}
        ELSE heap[layers[i].imageElement].ink]

Op(type, id) == [type |-> type, id |-> id]

\* obs.phase follows the shape "N commits, then N UNDOs, then N REDOs" of a
\* run from the fresh history; obs.undos and obs.redos count the UNDOs and
\* the REDOs of that shape and log holds the layer list after each of its
\* commits; the run is "mixed" once it leaves the shape
ObserveCommit(o, st) ==
    [o EXCEPT !.pushes = o.pushes + 1,
              !.prunes = IF st.historyIndex < Len(st.history) - 1
                         THEN o.prunes + 1 ELSE o.prunes,
              !.phase = IF o.phase = "commits" THEN "commits" ELSE "mixed",
              !.undos = 0,
              !.redos = 0]

ObserveUndo(o) ==
    IF o.phase \in {"commits", "undos"} /\ o.undos < o.pushes
    THEN [o EXCEPT !.phase = "undos", !.undos = o.undos + 1]
    ELSE [o EXCEPT !.phase = "mixed", !.undos = 0, !.redos = 0]

ObserveRedo(o) ==
    IF \/ o.phase = "undos" /\ o.undos = o.pushes /\ o.pushes > 0
       \/ o.phase = "redos" /\ o.redos < o.undos
    THEN [o EXCEPT !.phase = "redos", !.redos = o.redos + 1]
    ELSE [o EXCEPT !.phase = "mixed", !.undos = 0, !.redos = 0]

\* the system after one dispatch(action): sys holds the editor state, the
\* canvases and the observations
After(sys, action, env) ==
    LET st == reducer(sys.state, action, env)
        heap == heapAfter(sys.state, sys.heap, action)
        commits == CommitsHistory(sys.state, action)
    IN  [state |-> st,
         heap |-> heap,
         obs |-> IF commits THEN ObserveCommit(sys.obs, sys.state)
                 ELSE IF action.type = "UNDO" THEN ObserveUndo(sys.obs)
                 ELSE IF action.type = "REDO" THEN ObserveRedo(sys.obs)
                 ELSE sys.obs,
         log |-> IF commits
                 THEN (IF sys.obs.phase = "commits"
                       THEN Append(sys.log, st.layers) ELSE <<>>)
                 ELSE IF action.type = "UNDO" /\ ObserveUndo(sys.obs).phase = "mixed"
                 THEN <<>>
                 ELSE IF action.type = "REDO" /\ ObserveRedo(sys.obs).phase = "mixed"
                 THEN <<>>
                 ELSE sys.log,
         snaps |-> IF commits
                   THEN historyPush(sys.snaps, sys.state.historyIndex,
                                    Raster(st.layers, heap))
                   ELSE sys.snaps]

RECURSIVE AfterAll(_, _, _)
AfterAll(sys, actions, env) ==
    IF actions = <<>> THEN sys
    ELSE AfterAll(After(sys, Head(actions), env), Tail(actions), env)

Env(t) == [now |-> t, canvas |-> Len(canvases) + 1]

\* Date.now() never goes back; the model stops the clock at MaxClock
Clock == {t \in now..(now + 1) : t <= MaxClock}

\* the dispatches of one handler, in order, after the handler left the
\* canvases as heap; cap bounds the number of pushHistory calls of a run.
\* The render effect of Workspace runs after the handler, as a step of its own
DispatchAll(actions, env, heap, cap) ==
    LET sys == AfterAll([state |-> state, heap |-> heap, obs |-> obs,
                         log |-> log, snaps |-> snaps], actions, env)
    IN  /\ sys.obs.pushes <= cap
        /\ state' = sys.state
        /\ canvases' = sys.heap
        /\ now' = env.now
        /\ obs' = sys.obs
        /\ log' = sys.log
        /\ snaps' = sys.snaps
        /\ UNCHANGED <<sharedBufferCanvas, screen, imgData>>

Dispatch(action, env, heap, cap) == DispatchAll(<<action>>, env, heap, cap)

----------------------------------------------------------------------------
(* App and LayersPanel: handlers that dispatch one action *)

\* handleAddLayer: a drawing layer of the size of the canvas
handleAddLayer(cap) ==
    /\ Len(state.layers) < MaxLayers
    /\ \E t \in Clock :
        LET canvas == createOffscreenLayer(state.canvasSize.width,
                                           state.canvasSize.height)
            newLayer == NewLayer(t, "drawing", 0, 0, state.canvasSize.width,
                                 state.canvasSize.height, Len(canvases) + 1)
        IN  /\ Dispatch([type |-> "ADD_LAYER", layer |-> newLayer],
                        [now |-> t, canvas |-> 0], Append(canvases, canvas), cap)
            /\ lastOp' = Op("ADD_LAYER", t)
    /\ UNCHANGED <<ws, gesture>>

\* LayersPanel onDeleteLayer: the trash button of a listed layer
onDeleteLayer(cap) ==
    /\ \E id \in LayerIds(state.layers) :
        /\ Dispatch([type |-> "REMOVE_LAYER", id |-> id], Env(now), canvases, cap)
        /\ lastOp' = Op("REMOVE_LAYER", id)
    /\ UNCHANGED <<ws, gesture>>

\* the Delete or Backspace key while no selection path is set: the active
\* layer id is removed, present in the list or not
onDeleteKey(cap) ==
    /\ state.selectionPath = <<>>
    /\ state.activeLayerId # NullId
    /\ Dispatch([type |-> "REMOVE_LAYER", id |-> state.activeLayerId],
                Env(now), canvases, cap)
    /\ lastOp' = Op("REMOVE_LAYER", state.activeLayerId)
    /\ UNCHANGED <<ws, gesture>>

\* LayersPanel onDuplicateLayer, and Ctrl+D on the active layer id
onDuplicateLayer(cap) ==
    /\ Len(state.layers) < MaxLayers
    /\ \E id \in (LayerIds(state.layers) \cup {state.activeLayerId}) \ {NullId},
          t \in Clock :
        /\ Dispatch([type |-> "DUPLICATE_LAYER", id |-> id], Env(t), canvases, cap)
        /\ lastOp' = Op("DUPLICATE_LAYER", id)
    /\ UNCHANGED <<ws, gesture>>

\* handleSelectLayer: a click on a listed layer
handleSelectLayer ==
    /\ \E id \in LayerIds(state.layers) :
        /\ Dispatch([type |-> "SELECT_LAYER", id |-> id], Env(now), canvases, obs.pushes)
        /\ lastOp' = Op("SELECT_LAYER", id)
    /\ UNCHANGED <<ws, gesture>>

\* LayersPanel onToggleLock through handleUpdateLayer
onToggleLock(cap) ==
    /\ \E i \in 1..Len(state.layers) :
        /\ Dispatch([type |-> "UPDATE_LAYER", id |-> state.layers[i].id,
                     changes |-> [locked |-> ~state.layers[i].locked]],
                    Env(now), canvases, cap)
        /\ lastOp' = Op("UPDATE_LAYER", state.layers[i].id)
    /\ UNCHANGED <<ws, gesture>>

\* LayersPanel onToggleVisibility through handleUpdateLayer
onToggleVisibility(cap) ==
    /\ \E i \in 1..Len(state.layers) :
        /\ Dispatch([type |-> "UPDATE_LAYER", id |-> state.layers[i].id,
                     changes |-> [visible |-> ~state.layers[i].visible]],
                    Env(now), canvases, cap)
        /\ lastOp' = Op("UPDATE_LAYER", state.layers[i].id)
    /\ UNCHANGED <<ws, gesture>>

\* LayersPanel opacity slider: shown while activeLayerId is set, present
\* in the list or not
onOpacity(cap, values) ==
    /\ state.activeLayerId # NullId
    /\ \E v \in values :
        /\ Dispatch([type |-> "UPDATE_LAYER", id |-> state.activeLayerId,
                     changes |-> [opacity |-> v]], Env(now), canvases, cap)
        /\ lastOp' = Op("UPDATE_LAYER", state.activeLayerId)
    /\ UNCHANGED <<ws, gesture>>

\* Math.ceil(a / b) for b > 0
CeilDiv(a, b) == -((-a) \div b)

\* ctx.measureText(line).width in tenths of a pixel: the advance of a
\* character of the sans-serif face is taken as 0.6 em
measureText(chars, fontSize) == chars * fontSize * 6

RECURSIVE maxLineWidth(_, _)
maxLineWidth(lines, fontSize) ==
    IF lines = <<>> THEN 0
    ELSE LET w == measureText(Head(lines), fontSize)
             rest == maxLineWidth(Tail(lines), fontSize)
         IN  IF w > rest THEN w ELSE rest

\* measureTextLayer; lineHeight is fontSize * 1.2
measureTextLayer(text, fontSize, strokeWidth) ==
    LET horizontalPadding == strokeWidth + 20
        verticalPadding == strokeWidth + 10
    IN  [width |-> CeilDiv(maxLineWidth(text, fontSize) + 10 * horizontalPadding, 10),
         height |-> CeilDiv(Len(text) * fontSize * 12 + 10 * verticalPadding, 10)]

\* a JavaScript string that is truthy
Truthy(text) == text # <<>> /\ text # <<0>>

\* the properties of a text layer whose change has its box measured again
relevantProps == {"text", "fontSize", "fontFamily", "fontWeight", "fontStyle",
                  "textStrokeWidth"}

\* handleUpdateLayer: the action it dispatches
handleUpdateLayer(id, changes) ==
    LET i == FindIndex(state.layers, id)
        merged == Merge(state.layers[i], changes)
        needsResize == IF i = 0 THEN FALSE
                       ELSE IF state.layers[i].type # "text" THEN FALSE
                       ELSE IF relevantProps \cap DOMAIN changes = {} THEN FALSE
                       ELSE Truthy(merged.text)
        measured == measureTextLayer(merged.text,
                                     IF merged.fontSize = 0 THEN 24
                                     ELSE merged.fontSize,
                                     merged.textStrokeWidth)
    IN  [type |-> "UPDATE_LAYER", id |-> id,
         changes |-> IF needsResize THEN measured @@ changes ELSE changes]

\* the text layer the PropertiesPanel shows its text inputs for
ActiveTextLayer ==
    LET i == FindIndex(state.layers, state.activeLayerId)
    IN  IF i = 0 THEN FALSE ELSE state.layers[i].type = "text"

\* PropertiesPanel Content textarea
onChangeText(cap, values) ==
    /\ ActiveTextLayer
    /\ \E v \in values :
        /\ Dispatch(handleUpdateLayer(state.activeLayerId, [text |-> v]),
                    Env(now), canvases, cap)
        /\ lastOp' = Op("UPDATE_LAYER", state.activeLayerId)
    /\ UNCHANGED <<ws, gesture>>

\* PropertiesPanel Size (px) input: parseInt of what was typed
onChangeFontSize(cap, values) ==
    /\ ActiveTextLayer
    /\ \E v \in values :
        /\ Dispatch(handleUpdateLayer(state.activeLayerId, [fontSize |-> v]),
                    Env(now), canvases, cap)
        /\ lastOp' = Op("UPDATE_LAYER", state.activeLayerId)
    /\ UNCHANGED <<ws, gesture>>

\* PropertiesPanel Stroke Width input: parseInt of what was typed (min="0"
\* bounds the spinner arrows, not the typed value)
onChangeTextStrokeWidth(cap, values) ==
    /\ ActiveTextLayer
    /\ \E v \in values :
        /\ Dispatch(handleUpdateLayer(state.activeLayerId, [textStrokeWidth |-> v]),
                    Env(now), canvases, cap)
        /\ lastOp' = Op("UPDATE_LAYER", state.activeLayerId)
    /\ UNCHANGED <<ws, gesture>>

\* LayersPanel onReorder: the arrow is disabled at the boundary
onReorder(cap) ==
    /\ \E i \in 1..Len(state.layers), direction \in {"up", "down"} :
        /\ direction = "up" => i # 1
        /\ direction = "down" => i # Len(state.layers)
        /\ Dispatch([type |-> "REORDER_LAYER", id |-> state.layers[i].id,
                     direction |-> direction], Env(now), canvases, cap)
        /\ lastOp' = Op("REORDER_LAYER", state.layers[i].id)
    /\ UNCHANGED <<ws, gesture>>

\* dispatch of REORDER_LAYER for a listed layer in either direction, the
\* boundary included
dispatchReorder(cap) ==
    /\ \E i \in 1..Len(state.layers), direction \in {"up", "down"} :
        /\ Dispatch([type |-> "REORDER_LAYER", id |-> state.layers[i].id,
                     direction |-> direction], Env(now), canvases, cap)
        /\ lastOp' = [type |-> "REORDER_LAYER", id |-> state.layers[i].id,
                      direction |-> direction]
    /\ UNCHANGED <<ws, gesture>>

\* handleApplySettings: the sizes SettingsModal holds are >= 1
applySettings(cap, sizes) ==
    /\ \E size \in sizes :
        /\ Dispatch([type |-> "SET_CANVAS_SIZE", size |-> size],
                    Env(now), canvases, cap)
        /\ lastOp' = Op("SET_CANVAS_SIZE", NullId)
    /\ UNCHANGED <<ws, gesture>>

handleApplySettings(cap) ==
    applySettings(cap, {[width |-> 1, height |-> 1],
                        [width |-> 400, height |-> 300]})

\* handleCrop
handleCrop(rect) == [type |-> "CROP_CANVAS", rect |-> rect]

\* PropertiesPanel sliders of the active layer
onUpdateFilter(cap) ==
    /\ FindIndex(state.layers, state.activeLayerId) # 0
    /\ \E value \in {150} :
        /\ Dispatch([type |-> "SET_LAYER_FILTER", id |-> state.activeLayerId,
                     filter |-> "brightness", value |-> value],
                    Env(now), canvases, cap)
        /\ lastOp' = Op("SET_LAYER_FILTER", state.activeLayerId)
    /\ UNCHANGED <<ws, gesture>>

onUpdateEffect(cap) ==
    /\ FindIndex(state.layers, state.activeLayerId) # 0
    /\ LET l == state.layers[FindIndex(state.layers, state.activeLayerId)]
       IN  /\ Dispatch([type |-> "UPDATE_LAYER_EFFECT", id |-> l.id,
                        effectGroup |-> "glitch",
                        changes |-> [l.effects.glitch EXCEPT
                                        !.enabled = ~l.effects.glitch.enabled]],
                       Env(now), canvases, cap)
           /\ lastOp' = Op("UPDATE_LAYER_EFFECT", l.id)
    /\ UNCHANGED <<ws, gesture>>

\* PropertiesPanel: the enabled checkbox of an effect group of the active layer
onToggleEffect(cap, groups) ==
    /\ FindIndex(state.layers, state.activeLayerId) # 0
    /\ \E effectGroup \in groups :
        LET l == state.layers[FindIndex(state.layers, state.activeLayerId)]
        IN  /\ Dispatch([type |-> "UPDATE_LAYER_EFFECT", id |-> l.id,
                         effectGroup |-> effectGroup,
                         changes |-> [l.effects[effectGroup] EXCEPT
                                        !.enabled = ~l.effects[effectGroup].enabled]],
                        Env(now), canvases, cap)
            /\ lastOp' = Op("UPDATE_LAYER_EFFECT", l.id)
    /\ UNCHANGED <<ws, gesture>>

\* (mutant) the Spacing slider starts at 0
ScanlineSpacingsFromZero == {0, 20}

\* the ends of the Spacing slider of the scanlines effect (min 2, max 20)
ScanlineSpacings == {2, 20}

\* PropertiesPanel: the Spacing slider, shown while scanlines is enabled
onScanlineSpacing(cap) ==
    /\ FindIndex(state.layers, state.activeLayerId) # 0
    /\ \E v \in ScanlineSpacings :
        LET l == state.layers[FindIndex(state.layers, state.activeLayerId)]
        IN  /\ l.effects.scanlines.enabled
            /\ l.effects.scanlines.spacing # v
            /\ Dispatch([type |-> "UPDATE_LAYER_EFFECT", id |-> l.id,
                         effectGroup |-> "scanlines",
                         changes |-> [l.effects.scanlines EXCEPT !.spacing = v]],
                        Env(now), canvases, cap)
            /\ lastOp' = Op("UPDATE_LAYER_EFFECT", l.id)
    /\ UNCHANGED <<ws, gesture>>

\* Toolbar setTool; the effect of Workspace drops the crop rectangle once
\* the tool is not the crop tool
setTool(tools) ==
    /\ \E t \in tools \ {state.tool} :
        /\ Dispatch([type |-> "SET_TOOL", tool |-> t], Env(now), canvases, obs.pushes)
        /\ ws' = [ws EXCEPT !.cropRect = IF t = "crop" THEN @ ELSE <<>>]
        /\ lastOp' = Op("SET_TOOL", NullId)
    /\ UNCHANGED gesture

\* Ctrl+Z, Ctrl+Shift+Z / Ctrl+Y
Undo ==
    /\ Dispatch([type |-> "UNDO"], Env(now), canvases, obs.pushes)
    /\ lastOp' = Op("UNDO", NullId)
    /\ UNCHANGED <<ws, gesture>>

Redo ==
    /\ Dispatch([type |-> "REDO"], Env(now), canvases, obs.pushes)
    /\ lastOp' = Op("REDO", NullId)
    /\ UNCHANGED <<ws, gesture>>

----------------------------------------------------------------------------
(* Workspace: geometry of the pointer handlers *)

\* Math.cos and Math.sin of a rotation in degrees that is a multiple of 90
Cos(deg) == CASE deg % 360 = 0 -> 1 [] deg % 360 = 180 -> -1 [] OTHER -> 0
Sin(deg) == CASE deg % 360 = 90 -> 1 [] deg % 360 = 270 -> -1 [] OTHER -> 0

\* Math.hypot(dx, dy) where it is an integer: on an axis or along a 3-4-5
\* direction
HasHypot(dx, dy) ==
    \/ dx = 0
    \/ dy = 0
    \/ 3 * Abs(dx) = 4 * Abs(dy) /\ Abs(dx) % 4 = 0
    \/ 4 * Abs(dx) = 3 * Abs(dy) /\ Abs(dy) % 4 = 0

Hypot(dx, dy) ==
    IF dx = 0 THEN Abs(dy)
    ELSE IF dy = 0 THEN Abs(dx)
    ELSE IF 3 * Abs(dx) = 4 * Abs(dy) THEN (5 * Abs(dx)) \div 4
    ELSE (5 * Abs(dy)) \div 4

\* Math.atan2(dy, dx) * 180 / Math.PI for a direction along an axis
OnAxis(dx, dy) == dx = 0 \/ dy = 0

Atan2Deg(dy, dx) ==
    IF dy = 0 THEN (IF dx >= 0 THEN 0 ELSE 180)
    ELSE IF dy > 0 THEN 90 ELSE -90

\* cx, cy of a layer (width and height are even in the modelled runs)
Centre(l) == <<l.x + l.width \div 2, l.y + l.height \div 2>>

\* lx, ly: the point p seen from the centre in the unrotated frame of l
ToLocal(l, p) ==
    LET dx == p[1] - Centre(l)[1]
        dy == p[2] - Centre(l)[2]
    IN  <<dx * Cos(l.rotation) + dy * Sin(l.rotation),
          dy * Cos(l.rotation) - dx * Sin(l.rotation)>>

\* drawX, drawY: the point p in the pixel frame of the canvas of l
ToDraw(l, p) ==
    <<ToLocal(l, p)[1] + l.width \div 2, ToLocal(l, p)[2] + l.height \div 2>>

\* (mutant) the point is left where it is
rotatePointNoTurn(l, px, py) == <<px, py>>

\* rotatePoint of handleWarpTool: the point (px, py) turned by the rotation
\* of l around its centre
rotatePoint(l, px, py) ==
    LET dx == px - Centre(l)[1]
        dy == py - Centre(l)[2]
    IN  <<Centre(l)[1] + dx * Cos(l.rotation) - dy * Sin(l.rotation),
          Centre(l)[2] + dx * Sin(l.rotation) + dy * Cos(l.rotation)>>

\* getHandleAtPosition with zoom 1: "none" stands for null
getHandleAtPosition(x, y, layer) ==
    LET lx == ToLocal(layer, <<x, y>>)[1]
        ly == ToLocal(layer, <<x, y>>)[2]
        w2 == layer.width \div 2
        h2 == layer.height \div 2
    IN  IF Abs(lx + w2) < 10 /\ Abs(ly + h2) < 10 THEN "tl"
        ELSE IF Abs(lx - w2) < 10 /\ Abs(ly + h2) < 10 THEN "tr"
        ELSE IF Abs(lx - w2) < 10 /\ Abs(ly - h2) < 10 THEN "br"
        ELSE IF Abs(lx + w2) < 10 /\ Abs(ly - h2) < 10 THEN "bl"
        ELSE IF Abs(lx) < 10 /\ Abs(ly + h2 + 20) < 10 THEN "rot"
        ELSE IF lx >= -w2 /\ lx <= w2 /\ ly >= -h2 /\ ly <= h2 THEN "body"
        ELSE "none"

\* Math.hypot(x - p.x, y - p.y) < 10
Near(x, y, p) == (x - p[1]) * (x - p[1]) + (y - p[2]) * (y - p[2]) < 100

\* getWarpHandleAtPosition with zoom 1
getWarpHandleAtPosition(x, y, wp) ==
    IF Near(x, y, wp.tl) THEN "tl"
    ELSE IF Near(x, y, wp.tr) THEN "tr"
    ELSE IF Near(x, y, wp.bl) THEN "bl"
    ELSE IF Near(x, y, wp.br) THEN "br"
    ELSE "none"

\* ctx.beginPath(); ctx.moveTo(p)
BeginPathAt(canvas, p) == [canvas EXCEPT !.path = <<p>>]

\* ctx.lineTo(p); ctx.stroke() with the composite operation of the tool:
\* a path of one point has no segment to stroke; the brush paints the points
\* of the path that lie on the canvas, the eraser clears them
StrokeTo(canvas, p, tool) ==
    LET path == Append(canvas.path, p)
        hit == {path[i] : i \in 1..Len(path)}
        on == {q \in hit : /\ q[1] >= 0 /\ q[1] < canvas.width
                           /\ q[2] >= 0 /\ q[2] < canvas.height}
    IN  [canvas EXCEPT !.path = path,
                       !.ink = IF Len(path) < 2 THEN canvas.ink
                               ELSE IF tool = "eraser" THEN canvas.ink \ on
                               ELSE canvas.ink \cup on]

----------------------------------------------------------------------------
(* canvasUtils.ts: renderCanvas.  A painted pixel of the scratch canvas is  *)
(* a mark: the point it is at and the effects that went over it, in order.  *)
(* What a render pass put on the canvas of Workspace is the sequence of its *)
(* blends, each with the marks it drew, in document coordinates.            *)

Mark(at) == [at |-> at, fx |-> <<>>]

InRect(p, width, height) ==
    p[1] >= 0 /\ p[1] < width /\ p[2] >= 0 /\ p[2] < height

\* ctx.clearRect(0, 0, width, height)
clearRect(canvas, width, height) ==
    [canvas EXCEPT !.ink = {m \in @ : ~InRect(m.at, width, height)}]

\* getBuffer: document.createElement('canvas') gives a canvas of 300 x 150;
\* an assignment to width or height of a canvas clears it
getBuffer(buffer, width, height) ==
    LET created == IF buffer = <<>>
                   THEN [width |-> 300, height |-> 150, ink |-> {}]
                   ELSE buffer
        sized == IF created.width < width \/ created.height < height
                 THEN [width |-> width, height |-> height, ink |-> {}]
                 ELSE created
    IN  clearRect(sized, width, height)

\* getWarpedPoint at u = p[1] / originalWidth, v = p[2] / originalHeight
\* (renderWarpedLayer draws the grid cells along this map)
getWarpedPoint(p, wp, originalWidth, originalHeight) ==
    LET u1 == p[1]
        u0 == originalWidth - p[1]
        v1 == p[2]
        v0 == originalHeight - p[2]
        at(k) == ((wp.tl[k] * u0 + wp.tr[k] * u1) * v0
                  + (wp.bl[k] * u0 + wp.br[k] * u1) * v1)
                 \div (originalWidth * originalHeight)
    IN  <<at(1), at(2)>>

\* translate(centre); rotate(rotation); translate(-width / 2, -height / 2)
\* applied to the point p of the box of the layer
ToBuffer(l, p) ==
    LET dx == 2 * p[1] - l.width
        dy == 2 * p[2] - l.height
    IN  <<(2 * l.x + l.width + dx * Cos(l.rotation) - dy * Sin(l.rotation)) \div 2,
          (2 * l.y + l.height + dx * Sin(l.rotation) + dy * Cos(l.rotation)) \div 2>>

\* step 2 of renderCanvas: where the content of the layer is drawn.  The
\* glyphs of a line of text are taken as the pixel at the origin of the line
LayerPoints(l, heap) ==
    IF l.type \in {"image", "drawing"}
    THEN IF l.imageElement = 0 THEN {}
         ELSE LET im == heap[l.imageElement]
              IN  IF l.warpPoints # <<>>
                  THEN IF im.width = 0 \/ im.height = 0 THEN {}
                       ELSE {getWarpedPoint(p, l.warpPoints, im.width, im.height) :
                                p \in im.ink}
                  ELSE {ToBuffer(l, <<(p[1] * l.width) \div im.width,
                                      (p[2] * l.height) \div im.height>>) :
                            p \in im.ink}
    ELSE IF l.type = "text" /\ Truthy(l.text)
    THEN LET size == IF l.fontSize = 0 THEN 24 ELSE l.fontSize
         IN  {ToBuffer(l, <<0, ((index - 1) * size * 12) \div 10>>) :
                index \in 1..Len(l.text)}
    ELSE {}

drawLayer(buffer, l, heap) ==
    [buffer EXCEPT !.ink =
        @ \cup {Mark(q) : q \in {r \in LayerPoints(l, heap) :
                                    InRect(r, buffer.width, buffer.height)}}]

\* renderWarpedLayer: the grid of the warp
GRID_SIZE == 20

\* renderTriangleFixed: the source rectangle of drawImage, the cell with the
\* padding around it
paddedSource(sx, sy, sw, sh) ==
    LET pad == 2
        s_x == sx - pad
        s_y == sy - pad
        s_w == sw + 2 * pad
        s_h == sh + 2 * pad
    IN  [s_x |-> IF s_x < 0 THEN 0 ELSE s_x,
         s_y |-> IF s_y < 0 THEN 0 ELSE s_y,
         s_w |-> IF s_x < 0 THEN s_w + s_x ELSE s_w,
         s_h |-> IF s_y < 0 THEN s_h + s_y ELSE s_h]

\* renderWarpedLayer: the source rectangles of the cells of an image whose
\* sides are multiples of GRID_SIZE; nothing is drawn for an empty image
warpSources(originalWidth, originalHeight) ==
    LET stepW == originalWidth \div GRID_SIZE
        stepH == originalHeight \div GRID_SIZE
    IN  IF stepW <= 0 \/ stepH <= 0 THEN {}
        ELSE {paddedSource(x * stepW, y * stepH, stepW, stepH) :
                x \in 0..(GRID_SIZE - 1), y \in 0..(GRID_SIZE - 1)}

\* a pixel effect went over the marks inside (0, 0, width, height)
Over(buffer, width, height, name) ==
    [buffer EXCEPT !.ink =
        {IF InRect(m.at, width, height)
         THEN [m EXCEPT !.fx = Append(@, name)] ELSE m : m \in @}]

\* applyPixelate: the region is scaled down to w x h and back up without
\* smoothing, so a pixel spreads over its block (kept at the block's origin)
applyPixelate(buffer, width, height, blockSize) ==
    IF blockSize <= 1 THEN buffer
    ELSE LET w == CeilDiv(width, blockSize)
             h == CeilDiv(height, blockSize)
             block(p) == <<CeilDiv(((p[1] * w) \div width) * width, w),
                           CeilDiv(((p[2] * h) \div height) * height, h)>>
         IN  [buffer EXCEPT !.ink =
                {IF InRect(m.at, width, height)
                 THEN [at |-> block(m.at), fx |-> Append(m.fx, "pixelate")]
                 ELSE m : m \in @}]

\* applyGlitch on the scratch canvas: alpha stays, so the painted pixels are
\* the same ones; their red and blue are those applyGlitchData gives
applyGlitch(buffer, width, height, offset) ==
    IF offset <= 0 THEN buffer ELSE Over(buffer, width, height, "glitch")

\* applyVignette: a gradient filled over the painted pixels (source-atop)
applyVignette(buffer, width, height, amount, size) ==
    IF amount <= 0 THEN buffer ELSE Over(buffer, width, height, "vignette")

\* the loop of applyScanlines, for (let y = 0; y < height; y += spacing):
\* y is k * spacing when the test is made for the k-th time (k from 0)
scanlineY(k, spacing) == k * spacing

\* the loop makes its k-th test and enters the body
scanlineFills(k, height, spacing) ==
    \A j \in 0..k : scanlineY(j, spacing) < height

\* the loop leaves within fuel iterations
scanlineLoopEnds(height, spacing, fuel) ==
    \E k \in 0..fuel : ~(scanlineY(k, spacing) < height)

\* applyScanlines: a loop that advances by a pixel or more is over after
\* height iterations
applyScanlines(buffer, width, height, intensity, spacing) ==
    IF intensity <= 0 THEN [buffer |-> buffer, done |-> TRUE]
    ELSE [buffer |->
            [buffer EXCEPT !.ink =
                {IF /\ InRect(m.at, width, height)
                    /\ \E k \in 0..height :
                          /\ scanlineY(k, spacing) = m.at[2]
                          /\ scanlineFills(k, height, spacing)
                 THEN [m EXCEPT !.fx = Append(@, "scanlines")] ELSE m : m \in @}],
          done |-> scanlineLoopEnds(height, spacing, height)]

\* the size of the container of the Workspace canvas
ViewportSize == [width |-> 1200, height |-> 800]

\* ctx.drawImage(buffer, 0, 0) onto the canvas of Workspace, which shows the
\* document in the middle of the viewport (zoom 1, pan 0): the marks of the
\* whole scratch canvas that fall on the viewport, and the drop shadow each
\* of them casts when the effect is enabled
blend(buffer, l, width, height) ==
    LET shown(p) == /\ 2 * p[1] + ViewportSize.width - width >= 0
                    /\ 2 * p[1] - width - ViewportSize.width < 0
                    /\ 2 * p[2] + ViewportSize.height - height >= 0
                    /\ 2 * p[2] - height - ViewportSize.height < 0
        shadow == l.effects.dropShadow
    IN  [layer |-> l.id,
         opacity |-> l.opacity,
         marks |-> {m \in buffer.ink : shown(m.at)},
         shadows |-> IF shadow.enabled
                     THEN {q \in {<<m.at[1] + shadow.x, m.at[2] + shadow.y>> :
                                    m \in buffer.ink} : shown(q)}
                     ELSE {}]

\* the body of layersToRender.forEach for one layer; r holds the scratch
\* canvas, the blends so far and the steps taken
renderLayer(r, l, heap, width, height) ==
    IF ~l.visible \/ ~r.done THEN r
    ELSE LET step(name) == <<[step |-> name, layer |-> l.id]>>
             b1 == drawLayer(clearRect(r.buffer, width, height), l, heap)
             b2 == IF l.effects.pixelate.enabled
                   THEN applyPixelate(b1, width, height, l.effects.pixelate.blockSize)
                   ELSE b1
             b3 == IF l.effects.glitch.enabled
                   THEN applyGlitch(b2, width, height, l.effects.glitch.offset)
                   ELSE b2
             b4 == IF l.effects.vignette.enabled
                   THEN applyVignette(b3, width, height, l.effects.vignette.amount,
                                      l.effects.vignette.size)
                   ELSE b3
             sc == IF l.effects.scanlines.enabled
                   THEN applyScanlines(b4, width, height,
                                       l.effects.scanlines.intensity,
                                       l.effects.scanlines.spacing)
                   ELSE [buffer |-> b4, done |-> TRUE]
             before == r.steps \o step("clear") \o step("draw")
                       \o (IF l.effects.pixelate.enabled THEN step("pixelate") ELSE <<>>)
                       \o (IF l.effects.glitch.enabled THEN step("glitch") ELSE <<>>)
                       \o (IF l.effects.vignette.enabled THEN step("vignette") ELSE <<>>)
                       \o (IF l.effects.scanlines.enabled THEN step("scanlines") ELSE <<>>)
         IN  IF sc.done
             THEN [buffer |-> sc.buffer,
                   ink |-> Append(r.ink, blend(sc.buffer, l, width, height)),
                   steps |-> before \o step("blend"),
                   done |-> TRUE]
             ELSE [buffer |-> sc.buffer, ink |-> r.ink, steps |-> before,
                   done |-> FALSE]

\* (mutant) forEach without reverse(): from the first layer to the last
RECURSIVE renderLayersInListOrder(_, _, _, _, _, _)
renderLayersInListOrder(r, layers, i, heap, width, height) ==
    IF i = 0 THEN r
    ELSE renderLayersInListOrder(
             renderLayer(r, layers[Len(layers) - i + 1], heap, width, height),
             layers, i - 1, heap, width, height)

\* [...layers].reverse().forEach: from the last layer of the list to the first
RECURSIVE renderLayers(_, _, _, _, _, _)
renderLayers(r, layers, i, heap, width, height) ==
    IF i = 0 THEN r
    ELSE renderLayers(renderLayer(r, layers[i], heap, width, height),
                      layers, i - 1, heap, width, height)

\* renderCanvas into the cleared canvas of a caller, with the scratch canvas
\* as the calls before left it
renderCanvas(buffer, layers, heap, width, height) ==
    renderLayers([buffer |-> getBuffer(buffer, width, height), ink |-> <<>>,
                  steps |-> <<>>, done |-> TRUE],
                 layers, Len(layers), heap, width, height)

----------------------------------------------------------------------------
(* Workspace: pointer handlers.  The selection path stays null and the     *)
(* tools are move, brush and warp in the modelled runs.                    *)

InGesture == ws.isDragging \/ ws.isDrawing

\* the points of the modelled pointer events: the centre of the active
\* layer, its bottom-right corner, its rotation handle and a point on the
\* horizontal axis through its centre; the centre of the canvas when no
\* layer is active; three corners of a 400x300 rectangle with the crop tool
PointerTargets ==
    LET i == FindIndex(state.layers, state.activeLayerId)
    IN  IF state.tool = "crop"
        THEN {<<100, 100>>, <<500, 400>>, <<100, 400>>}
        ELSE IF i = 0
        THEN {<<state.canvasSize.width \div 2, state.canvasSize.height \div 2>>}
        ELSE LET l == state.layers[i]
                 c == Centre(l)
             IN  {c,
                  rotatePoint(l, l.x + l.width, l.y + l.height),
                  rotatePoint(l, c[1], l.y - 20),
                  <<c[1] + 100, c[2]>>}

\* whether a press at coords grabs a handle, starts a stroke or places a
\* text (handles are tried on layers whose centre is a whole pixel)
StartsGesture(coords) ==
    LET i == FindIndex(state.layers, state.activeLayerId)
    IN  IF state.tool \in {"brush", "eraser", "crop", "text"} THEN TRUE
        ELSE IF i = 0 THEN FALSE
        ELSE IF state.tool = "move"
        THEN /\ state.layers[i].width % 2 = 0 /\ state.layers[i].height % 2 = 0
             /\ getHandleAtPosition(coords[1], coords[2], state.layers[i]) # "none"
        ELSE IF state.tool = "warp" /\ state.layers[i].warpPoints # <<>>
        THEN getWarpHandleAtPosition(coords[1], coords[2],
                                     state.layers[i].warpPoints) # "none"
        ELSE FALSE

\* the scale of a corner drag is a ratio the integers hold; with the pointer
\* on the centre it is 0 whatever the distance of the press was
ScaleExact(layer, initial, coords) ==
    LET c == Centre(layer)
        i1 == ws.startPos[1] - c[1]
        i2 == ws.startPos[2] - c[2]
        c1 == coords[1] - c[1]
        c2 == coords[2] - c[2]
    IN  /\ layer.width % 2 = 0 /\ layer.height % 2 = 0
        /\ IF c1 = 0 /\ c2 = 0
           THEN i1 # 0 \/ i2 # 0
           ELSE /\ HasHypot(i1, i2) /\ HasHypot(c1, c2)
                /\ Hypot(i1, i2) > 0
                /\ (initial.width * Hypot(c1, c2)) % (2 * Hypot(i1, i2)) = 0
                /\ (initial.height * Hypot(c1, c2)) % (2 * Hypot(i1, i2)) = 0

\* the changes handleMouseMove hands to onUpdateLayer while a handle of the
\* move tool is dragged
dragChanges(layer, initial, coords) ==
    LET c == Centre(layer)
    IN  IF ws.activeHandle = "body"
        THEN [x |-> layer.x + (coords[1] - ws.lastMousePos[1]),
              y |-> layer.y + (coords[2] - ws.lastMousePos[2])]
        ELSE IF ws.activeHandle = "rot"
        THEN [rotation |-> Atan2Deg(coords[2] - c[2], coords[1] - c[1]) + 90]
        ELSE LET initialDist == Hypot(ws.startPos[1] - c[1], ws.startPos[2] - c[2])
                 currentDist == Hypot(coords[1] - c[1], coords[2] - c[2])
                 newWidth == IF currentDist = 0 THEN 0
                             ELSE (initial.width * currentDist) \div initialDist
                 newHeight == IF currentDist = 0 THEN 0
                              ELSE (initial.height * currentDist) \div initialDist
             IN  [width |-> newWidth, height |-> newHeight,
                  x |-> c[1] - newWidth \div 2, y |-> c[2] - newHeight \div 2]

\* handleCommitLayerUpdate
handleCommitLayerUpdate == [type |-> "PUSH_HISTORY"]

\* handleMouseDown with the left button, pressed while no button is down
handleMouseDown(cap, maxLayers, targets) ==
    /\ ~InGesture
    /\ \E coords \in targets, t \in Clock :
        LET i == FindIndex(state.layers, state.activeLayerId)
            down == [ws EXCEPT !.startPos = coords, !.lastMousePos = coords]
            grab(handle) == [down EXCEPT !.isDragging = TRUE,
                                         !.activeHandle = handle,
                                         !.initialLayerState = <<state.layers[i]>>]
            warpHandle ==
                IF state.tool = "warp" /\ i # 0 /\ state.layers[i].warpPoints # <<>>
                THEN getWarpHandleAtPosition(coords[1], coords[2],
                                             state.layers[i].warpPoints)
                ELSE "none"
            handle ==
                IF state.tool = "move" /\ i # 0
                THEN getHandleAtPosition(coords[1], coords[2], state.layers[i])
                ELSE "none"
            creates == IF i = 0 THEN state.tool = "brush"
                       ELSE state.tool = "brush" /\ state.layers[i].type = "text"
            layerId == IF creates THEN t ELSE state.activeLayerId
            j == FindIndex(state.layers, layerId)
            starts == /\ j # 0
                      /\ state.layers[j].type \in {"drawing", "image"}
                      /\ state.layers[j].imageElement # 0
            heap == IF creates
                    THEN Append(canvases,
                                createOffscreenLayer(state.canvasSize.width,
                                                     state.canvasSize.height))
                    ELSE canvases
            newLayer == NewLayer(t, "drawing", 0, 0, state.canvasSize.width,
                                 state.canvasSize.height, Len(canvases) + 1)
            box == measureTextLayer(<<8>>, 32, 0)
            textLayer == [NewLayer(t, "text", coords[1], coords[2], box.width,
                                   box.height, 0)
                          EXCEPT !.text = <<8>>, !.fontSize = 32]
        IN  IF state.tool = "crop"
            THEN /\ t = now
                 /\ ws' = [down EXCEPT !.isDragging = TRUE,
                                       !.cropRect = [x |-> coords[1], y |-> coords[2],
                                                     width |-> 0, height |-> 0]]
                 /\ DispatchAll(<<>>, Env(now), canvases, cap)
                 /\ gesture' = [kind |-> "none", base |-> obs.pushes, moves |-> 0]
            ELSE IF warpHandle # "none"
            THEN /\ t = now
                 /\ ws' = grab(warpHandle)
                 /\ DispatchAll(<<>>, Env(now), canvases, cap)
                 /\ gesture' = [kind |-> "warp", base |-> obs.pushes, moves |-> 0]
            ELSE IF handle # "none"
            THEN /\ t = now
                 /\ ws' = grab(handle)
                 /\ DispatchAll(<<>>, Env(now), canvases, cap)
                 /\ gesture' = [kind |-> IF handle = "body" THEN "move"
                                         ELSE IF handle = "rot" THEN "rotate"
                                         ELSE "scale",
                                base |-> obs.pushes, moves |-> 0]
            ELSE IF state.tool \in {"brush", "eraser"}
            THEN /\ IF creates THEN TRUE ELSE t = now
                 /\ creates => Len(state.layers) < maxLayers
                 /\ ws' = [down EXCEPT !.isDrawing = TRUE]
                 /\ DispatchAll(IF creates
                                THEN <<[type |-> "ADD_LAYER", layer |-> newLayer]>>
                                ELSE <<>>,
                                [now |-> t, canvas |-> 0],
                                IF starts
                                THEN [heap EXCEPT ![state.layers[j].imageElement] =
                                        BeginPathAt(@, ToDraw(state.layers[j], coords))]
                                ELSE heap,
                                cap)
                 /\ gesture' = [kind |-> state.tool, base |-> obs'.pushes,
                                moves |-> 0]
            ELSE IF state.tool = "text"
            THEN /\ Len(state.layers) < maxLayers
                 /\ ws' = down
                 /\ DispatchAll(<<[type |-> "ADD_LAYER", layer |-> textLayer]>>,
                                [now |-> t, canvas |-> 0], canvases, cap)
                 /\ gesture' = [kind |-> "none", base |-> obs.pushes, moves |-> 0]
            ELSE /\ t = now
                 /\ ws' = down
                 /\ DispatchAll(<<>>, Env(now), canvases, cap)
                 /\ gesture' = [kind |-> "none", base |-> obs.pushes, moves |-> 0]
    /\ lastOp' = Op("MOUSE_DOWN", state.activeLayerId)

\* handleMouseMove while a button is down
handleMouseMove(cap) ==
    /\ InGesture
    /\ gesture.moves < MaxMoves
    /\ \E coords \in PointerTargets :
        /\ lastOp' = [type |-> "MOUSE_MOVE", id |-> state.activeLayerId,
                      coords |-> coords]
        /\ LET i == FindIndex(state.layers, state.activeLayerId)
               layer == state.layers[i]
               moved == [ws EXCEPT !.lastMousePos = coords]
               drawable == /\ i # 0
                           /\ layer.type \in {"drawing", "image"}
                           /\ layer.imageElement # 0
           IN  IF ws.isDragging /\ state.tool = "crop" /\ ws.cropRect # <<>>
               THEN /\ ws' = [ws EXCEPT !.cropRect.width = coords[1] - ws.startPos[1],
                                        !.cropRect.height = coords[2] - ws.startPos[2]]
                    /\ DispatchAll(<<>>, Env(now), canvases, cap)
               ELSE IF /\ ws.isDragging /\ state.tool = "warp"
                       /\ state.activeLayerId # NullId /\ ws.activeHandle # "none"
               THEN /\ ws' = ws
                    /\ DispatchAll(IF i # 0 /\ layer.warpPoints # <<>>
                                   THEN <<handleUpdateLayer(layer.id,
                                            [warpPoints |->
                                               [layer.warpPoints EXCEPT
                                                   ![ws.activeHandle] = coords]])>>
                                   ELSE <<>>,
                                   Env(now), canvases, cap)
               ELSE IF /\ ws.isDragging /\ state.tool = "move"
                       /\ state.activeLayerId # NullId /\ ws.initialLayerState # <<>>
               THEN IF i = 0
                    THEN /\ ws' = ws
                         /\ DispatchAll(<<>>, Env(now), canvases, cap)
                    ELSE LET initial == ws.initialLayerState[1]
                             scales == /\ ws.activeHandle \notin {"body", "rot", "none"}
                                       /\ initial.width # 0 /\ initial.height # 0
                             updates == ws.activeHandle \in {"body", "rot"} \/ scales
                         IN  /\ ws.activeHandle = "rot" =>
                                   /\ layer.width % 2 = 0 /\ layer.height % 2 = 0
                                   /\ OnAxis(coords[1] - Centre(layer)[1],
                                             coords[2] - Centre(layer)[2])
                             /\ scales => ScaleExact(layer, initial, coords)
                             /\ ws' = moved
                             /\ DispatchAll(IF updates
                                            THEN <<handleUpdateLayer(layer.id,
                                                     dragChanges(layer, initial, coords))>>
                                            ELSE <<>>,
                                            Env(now), canvases, cap)
               ELSE IF /\ ws.isDrawing /\ state.tool \in {"brush", "eraser"}
                       /\ state.activeLayerId # NullId /\ drawable
               THEN /\ layer.width % 2 = 0 /\ layer.height % 2 = 0
                    /\ ws' = moved
                    /\ DispatchAll(<<handleUpdateLayer(layer.id, <<>>)>>, Env(now),
                                   [canvases EXCEPT ![layer.imageElement] =
                                       StrokeTo(@, ToDraw(layer, coords), state.tool)],
                                   cap)
               ELSE /\ ws' = moved
                    /\ DispatchAll(<<>>, Env(now), canvases, cap)
    /\ gesture' = [gesture EXCEPT !.moves = gesture.moves + 1]

\* handleMouseUp (the release of the button, or the pointer leaving the
\* workspace) while a button is down.  startPos and lastMousePos are read
\* only while a button is down and handleMouseDown sets both: the model
\* forgets them at the release
handleMouseUp(cap) ==
    /\ InGesture
    /\ LET commits ==
            \/ /\ ws.isDragging /\ state.tool \in {"move", "warp"}
               /\ state.activeLayerId # NullId /\ ws.activeHandle # "none"
            \/ ws.isDrawing /\ state.tool \in {"brush", "eraser"}
       IN  DispatchAll(IF commits THEN <<handleCommitLayerUpdate>> ELSE <<>>,
                       Env(now), canvases, cap)
    /\ ws' = [ws EXCEPT !.isDragging = FALSE, !.isDrawing = FALSE,
                        !.activeHandle = "none", !.initialLayerState = <<>>,
                        !.startPos = <<0, 0>>, !.lastMousePos = <<0, 0>>]
    /\ gesture' = gesture
    /\ lastOp' = Op("MOUSE_UP", state.activeLayerId)

\* handleWarpTool: the warp button of the toolbar
handleWarpTool(cap) ==
    /\ ~InGesture
    /\ state.tool # "warp"
    /\ FindIndex(state.layers, state.activeLayerId) # 0
    /\ LET l == state.layers[FindIndex(state.layers, state.activeLayerId)]
           initialWarp == [tl |-> rotatePoint(l, l.x, l.y),
                           tr |-> rotatePoint(l, l.x + l.width, l.y),
                           bl |-> rotatePoint(l, l.x, l.y + l.height),
                           br |-> rotatePoint(l, l.x + l.width, l.y + l.height)]
       IN  /\ l.type \in {"image", "drawing"}
           /\ l.width % 2 = 0 /\ l.height % 2 = 0
           /\ DispatchAll(IF l.warpPoints = <<>>
                          THEN <<[type |-> "UPDATE_LAYER", id |-> l.id,
                                  changes |-> [warpPoints |-> initialWarp]],
                                 [type |-> "SET_TOOL", tool |-> "warp"]>>
                          ELSE <<[type |-> "SET_TOOL", tool |-> "warp"]>>,
                          Env(now), canvases, cap)
           /\ lastOp' = Op("WARP_TOOL", l.id)
    /\ ws' = [ws EXCEPT !.cropRect = <<>>]
    /\ UNCHANGED gesture

\* Workspace keydown: Enter with the crop tool and a crop rectangle; the
\* rectangle is normalised and cropped to when its sides are positive
onCropEnter(cap) ==
    /\ state.tool = "crop"
    /\ ws.cropRect # <<>>
    /\ LET r == ws.cropRect
           normalizedRect ==
               [x |-> IF r.width < 0 THEN r.x + r.width ELSE r.x,
                y |-> IF r.height < 0 THEN r.y + r.height ELSE r.y,
                width |-> Abs(r.width),
                height |-> Abs(r.height)]
           crops == normalizedRect.width > 0 /\ normalizedRect.height > 0
       IN  /\ DispatchAll(IF crops THEN <<handleCrop(normalizedRect)>> ELSE <<>>,
                          Env(now), canvases, cap)
           /\ ws' = [ws EXCEPT !.cropRect = IF crops THEN <<>> ELSE @]
           /\ lastOp' = [type |-> IF crops THEN "CROP_CANVAS" ELSE "ENTER",
                         id |-> NullId, rect |-> normalizedRect]
    /\ UNCHANGED gesture

\* what the render effect of Workspace hands to renderCanvas
RenderArgs ==
    [layers |-> state.layers, raster |-> Raster(state.layers, canvases),
     width |-> state.canvasSize.width, height |-> state.canvasSize.height]

\* the canvas of Workspace shows the state
Rendered == screen.args = RenderArgs

\* the render effect of Workspace: it runs after every change of the state,
\* clears the canvas and calls renderCanvas; a pass that does not come to an
\* end leaves the page without a further step
renderEffect ==
    /\ screen.done
    /\ ~Rendered
    /\ LET r == renderCanvas(sharedBufferCanvas, state.layers, canvases,
                             state.canvasSize.width, state.canvasSize.height)
       IN  /\ sharedBufferCanvas' = r.buffer
           /\ screen' = [ink |-> r.ink, args |-> RenderArgs, steps |-> r.steps,
                         done |-> r.done]
    /\ lastOp' = Op("RENDER", NullId)
    /\ UNCHANGED <<state, canvases, now, ws, obs, log, snaps, gesture, imgData>>

----------------------------------------------------------------------------
(* The document operations *)

Init ==
    /\ state = initialState
    /\ canvases = <<>>
    /\ now = 1
    /\ ws = [isDragging |-> FALSE, isDrawing |-> FALSE, activeHandle |-> "none",
             startPos |-> <<0, 0>>, lastMousePos |-> <<0, 0>>,
             initialLayerState |-> <<>>, cropRect |-> <<>>]
    /\ lastOp = Op("INIT", NullId)
    /\ obs = [pushes |-> 0, prunes |-> 0, phase |-> "commits",
              undos |-> 0, redos |-> 0]
    /\ log = << <<>> >>
    /\ snaps = << <<>> >>
    /\ gesture = [kind |-> "none", base |-> 0, moves |-> 0]
    /\ sharedBufferCanvas = <<>>
    /\ screen = [ink |-> <<>>, args |-> <<>>, steps |-> <<>>, done |-> TRUE]
    /\ imgData = <<>>

Next ==
    \/ handleAddLayer(MaxCommits)
    \/ onDeleteLayer(MaxCommits)
    \/ onDeleteKey(MaxCommits)
    \/ onDuplicateLayer(MaxCommits)
    \/ handleSelectLayer
    \/ onToggleLock(MaxCommits)
    \/ onReorder(MaxCommits)
    \/ onUpdateFilter(MaxCommits)
    \/ onUpdateEffect(MaxCommits)
    \/ Undo
    \/ Redo

Spec == Init /\ [][Next]_vars

----------------------------------------------------------------------------
(* The history under long runs of commits, UNDO and REDO *)

\* the value the opacity slider of LayersPanel shows
SliderOpacity ==
    LET i == FindIndex(state.layers, state.activeLayerId)
    IN  IF i # 0 /\ state.layers[i].opacity # 0 THEN state.layers[i].opacity
        ELSE 100

\* the model lets at most MaxPrunes commits of a run discard entries
MayCommit ==
    \/ state.historyIndex = Len(state.history) - 1
    \/ obs.prunes < MaxPrunes

AddFirstLayer ==
    /\ MayCommit
    /\ state.layers = <<>>
    /\ handleAddLayer(MaxHistCommits)

OpacityStepDown ==
    /\ MayCommit
    /\ SliderOpacity > 0
    /\ onOpacity(MaxHistCommits, {SliderOpacity - 1})

NextHistory ==
    \/ AddFirstLayer
    \/ OpacityStepDown
    \/ Undo
    \/ Redo

SpecHistory == Init /\ [][NextHistory]_vars

----------------------------------------------------------------------------
(* The pointer gestures *)

GestureAddLayer ==
    /\ ~InGesture
    /\ Len(state.layers) < MaxGestureLayers
    /\ handleAddLayer(MaxGestureCommits)

GestureSetTool ==
    /\ ~InGesture
    /\ setTool({"move", "brush"})

\* Ctrl+Z and Ctrl+Y between two gestures
GestureUndo ==
    /\ ~InGesture
    /\ Undo

GestureRedo ==
    /\ ~InGesture
    /\ Redo

NextGesture ==
    \/ GestureAddLayer
    \/ GestureSetTool
    \/ handleWarpTool(MaxGestureCommits)
    \/ handleMouseDown(MaxGestureCommits, MaxGestureLayers,
                       {p \in PointerTargets : StartsGesture(p)})
    \/ handleMouseMove(MaxGestureCommits)
    \/ handleMouseUp(MaxGestureCommits)
    \/ GestureUndo
    \/ GestureRedo

SpecGesture == Init /\ [][NextGesture]_vars

----------------------------------------------------------------------------
(* Gestures on a layer and its duplicates *)

CopyAddLayer ==
    /\ ~InGesture
    /\ state.layers = <<>>
    /\ handleAddLayer(MaxCopyCommits)

CopyDuplicate ==
    /\ ~InGesture
    /\ Len(state.layers) < MaxCopyLayers
    /\ onDuplicateLayer(MaxCopyCommits)

NextCopy ==
    \/ CopyAddLayer
    \/ CopyDuplicate
    \/ GestureSetTool
    \/ handleMouseDown(MaxCopyCommits, MaxCopyLayers,
                       {p \in PointerTargets : StartsGesture(p)})
    \/ handleMouseMove(MaxCopyCommits)
    \/ handleMouseUp(MaxCopyCommits)

SpecCopy == Init /\ [][NextCopy]_vars

----------------------------------------------------------------------------
(* Cropping the canvas *)

CropAddLayer ==
    /\ ~InGesture
    /\ state.layers = <<>>
    /\ handleAddLayer(MaxCropCommits)

CropDuplicate ==
    /\ ~InGesture
    /\ Len(state.layers) < MaxCopyLayers
    /\ onDuplicateLayer(MaxCropCommits)

CropSetTool ==
    /\ ~InGesture
    /\ setTool({"move", "crop"})

NextCrop ==
    \/ CropAddLayer
    \/ CropDuplicate
    \/ CropSetTool
    \/ handleMouseDown(MaxCropCommits, MaxCopyLayers,
                       {p \in PointerTargets : StartsGesture(p)})
    \/ handleMouseMove(MaxCropCommits)
    \/ handleMouseUp(MaxCropCommits)
    \/ onCropEnter(MaxCropCommits)

SpecCrop == Init /\ [][NextCrop]_vars

----------------------------------------------------------------------------
(* UNDO and REDO after the canvas was cropped or resized *)

ResizeAddLayer ==
    /\ ~InGesture
    /\ Len(state.layers) < MaxResizeLayers
    /\ handleAddLayer(MaxResizeCommits)

ResizeApplySettings ==
    /\ ~InGesture
    /\ handleApplySettings(MaxResizeCommits)

ResizeSetTool ==
    /\ ~InGesture
    /\ setTool({"crop"})

ResizeMouseDown ==
    /\ state.tool = "crop"
    /\ handleMouseDown(MaxResizeCommits, MaxResizeLayers,
                       {p \in PointerTargets : StartsGesture(p)})

NextResize ==
    \/ ResizeAddLayer
    \/ ResizeApplySettings
    \/ ResizeSetTool
    \/ ResizeMouseDown
    \/ handleMouseMove(MaxResizeCommits)
    \/ handleMouseUp(MaxResizeCommits)
    \/ onCropEnter(MaxResizeCommits)
    \/ GestureUndo
    \/ GestureRedo

SpecResize == Init /\ [][NextResize]_vars

-----------------------------------------------------------------------------
(* The order of the layers *)

ReorderAddLayer == handleAddLayer(MaxReorderCommits)

ReorderAny == dispatchReorder(MaxReorderCommits)

NextReorder ==
    \/ ReorderAddLayer
    \/ ReorderAny
    \/ handleSelectLayer

SpecReorder == Init /\ [][NextReorder]_vars

-----------------------------------------------------------------------------
(* The warp quad *)

WarpAddLayer ==
    /\ ~InGesture
    /\ Len(state.layers) < MaxWarpLayers
    /\ handleAddLayer(MaxWarpCommits)

WarpSetTool ==
    /\ ~InGesture
    /\ setTool({"move"})

NextWarp ==
    \/ WarpAddLayer
    \/ WarpSetTool
    \/ handleWarpTool(MaxWarpCommits)
    \/ handleMouseDown(MaxWarpCommits, MaxWarpLayers,
                       {p \in PointerTargets : StartsGesture(p)})
    \/ handleMouseMove(MaxWarpCommits)
    \/ handleMouseUp(MaxWarpCommits)

SpecWarp == Init /\ [][NextWarp]_vars

-----------------------------------------------------------------------------
(* Pointer gestures on a locked layer *)

LockAddLayer ==
    /\ ~InGesture
    /\ Len(state.layers) < MaxLockLayers
    /\ handleAddLayer(MaxLockCommits)

LockToggle ==
    /\ ~InGesture
    /\ onToggleLock(MaxLockCommits)

NextLock ==
    \/ LockAddLayer
    \/ LockToggle
    \/ GestureSetTool
    \/ handleMouseDown(MaxLockCommits, MaxLockLayers,
                       {p \in PointerTargets : StartsGesture(p)})
    \/ handleMouseMove(MaxLockCommits)
    \/ handleMouseUp(MaxLockCommits)

SpecLock == Init /\ [][NextLock]_vars

-----------------------------------------------------------------------------
(* The warp quad under the other operations on its layer *)

\* the active layer holds a warp quad
ActiveQuad ==
    /\ FindIndex(state.layers, state.activeLayerId) # 0
    /\ state.layers[FindIndex(state.layers, state.activeLayerId)].warpPoints # <<>>

QuadAddLayer ==
    /\ ~InGesture
    /\ state.layers = <<>>
    /\ handleAddLayer(MaxQuadCommits)

QuadDuplicate ==
    /\ ~InGesture /\ ActiveQuad
    /\ Len(state.layers) < MaxQuadLayers
    /\ onDuplicateLayer(MaxQuadCommits)

QuadSetTool ==
    /\ ~InGesture /\ ActiveQuad
    /\ setTool({"move", "crop"})

QuadUpdateFilter ==
    /\ ~InGesture /\ ActiveQuad
    /\ onUpdateFilter(MaxQuadCommits)

QuadUpdateEffect ==
    /\ ~InGesture /\ ActiveQuad
    /\ onUpdateEffect(MaxQuadCommits)

QuadMouseDown ==
    /\ ActiveQuad
    /\ handleMouseDown(MaxQuadCommits, MaxQuadLayers,
                       {p \in PointerTargets : StartsGesture(p)})

QuadUndo ==
    /\ ~InGesture /\ ActiveQuad
    /\ Undo

NextQuad ==
    \/ QuadAddLayer
    \/ QuadDuplicate
    \/ QuadSetTool
    \/ handleWarpTool(MaxQuadCommits)
    \/ QuadMouseDown
    \/ handleMouseMove(MaxQuadCommits)
    \/ handleMouseUp(MaxQuadCommits)
    \/ onCropEnter(MaxQuadCommits)
    \/ QuadUpdateFilter
    \/ QuadUpdateEffect
    \/ QuadUndo
    \/ GestureRedo

SpecQuad == Init /\ [][NextQuad]_vars

-----------------------------------------------------------------------------
(* Render passes while the document is painted on and resized *)

RenderAddLayer ==
    /\ Rendered /\ ~InGesture
    /\ Len(state.layers) < MaxRenderLayers
    /\ handleAddLayer(MaxRenderCommits)

RenderSetTool ==
    /\ Rendered /\ ~InGesture
    /\ setTool({"brush"})

RenderApplySettings ==
    /\ Rendered /\ ~InGesture
    /\ handleApplySettings(MaxRenderCommits)

RenderMouseDown ==
    /\ Rendered
    /\ state.tool = "brush"
    /\ handleMouseDown(MaxRenderCommits, MaxRenderLayers,
                       {p \in PointerTargets : StartsGesture(p)})

RenderMouseMove ==
    /\ Rendered
    /\ handleMouseMove(MaxRenderCommits)

RenderMouseUp ==
    /\ Rendered
    /\ handleMouseUp(MaxRenderCommits)

NextRender ==
    \/ RenderAddLayer
    \/ RenderSetTool
    \/ RenderApplySettings
    \/ RenderMouseDown
    \/ RenderMouseMove
    \/ RenderMouseUp
    \/ renderEffect

SpecRender == Init /\ [][NextRender]_vars

-----------------------------------------------------------------------------
(* Render passes of layers with pixel effects *)

EffectsAddLayer ==
    /\ Rendered
    /\ Len(state.layers) < MaxEffectsLayers
    /\ handleAddLayer(MaxEffectsCommits)

EffectsToggleVisibility ==
    /\ Rendered
    /\ onToggleVisibility(MaxEffectsCommits)

EffectsToggleEffect ==
    /\ Rendered
    /\ onToggleEffect(MaxEffectsCommits,
                      {"pixelate", "glitch", "vignette", "scanlines"})

EffectsSpacing ==
    /\ Rendered
    /\ onScanlineSpacing(MaxEffectsCommits)

NextEffects ==
    \/ EffectsAddLayer
    \/ EffectsToggleVisibility
    \/ EffectsToggleEffect
    \/ EffectsSpacing
    \/ renderEffect

SpecEffects == Init /\ [][NextEffects]_vars

-----------------------------------------------------------------------------
(* The scratch canvas while the size of the document changes *)

\* wide, high, small and large documents typed into SettingsModal
BufferSizes ==
    {[width |-> 1000, height |-> 100], [width |-> 100, height |-> 1000],
     [width |-> 400, height |-> 300], [width |-> 1200, height |-> 1200]}

BufferAddLayer ==
    /\ Rendered
    /\ Len(state.layers) < MaxBufferLayers
    /\ handleAddLayer(MaxBufferCommits)

BufferApplySettings ==
    /\ Rendered
    /\ applySettings(MaxBufferCommits, BufferSizes)

NextBuffer ==
    \/ BufferAddLayer
    \/ BufferApplySettings
    \/ renderEffect

SpecBuffer == Init /\ [][NextBuffer]_vars

\* ---- applyGlitch on the bytes of the scratch canvas ----

\* the byte at the 0-based index i of a Uint8ClampedArray
ByteAt(data, i) == data[i + 1]

\* applyGlitch, the loop over data: the red byte of every pixel is read at
\* i - byteOffset and the blue byte at i + byteOffset + 2 of the copy, when
\* that index is inside the array
glitchData(data, offset) ==
    IF offset <= 0 THEN data
    ELSE LET copy == data
             byteOffset == offset * 4
         IN  [n \in 1..Len(data) |->
                LET channel == (n - 1) % 4
                    i == (n - 1) - channel
                    leftIdx == i - byteOffset
                    rightIdx == i + byteOffset
                IN  IF channel = 0 /\ leftIdx >= 0 /\ leftIdx < Len(data)
                    THEN ByteAt(copy, leftIdx)
                    ELSE IF channel = 2 /\ rightIdx >= 0 /\ rightIdx < Len(data)
                    THEN ByteAt(copy, rightIdx + 2)
                    ELSE data[n]]

\* ctx.getImageData(0, 0, width, height): four bytes a pixel, row after row;
\* the bytes of the picture differ from place to place
getImageData(width, height, tone) ==
    [width |-> width, height |-> height, offset |-> 0,
     copy |-> [n \in 1..(4 * width * height) |-> (tone * 16 + n) % 256],
     data |-> [n \in 1..(4 * width * height) |-> (tone * 16 + n) % 256]]

GlitchGetImageData ==
    /\ \E width \in 1..MaxGlitchWidth, height \in 1..MaxGlitchHeight,
          tone \in 0..2 :
          imgData' = getImageData(width, height, tone)
    /\ UNCHANGED <<state, canvases, now, ws, lastOp, obs, log, snaps, gesture,
                   sharedBufferCanvas, screen>>

GlitchApply ==
    /\ imgData # <<>>
    /\ imgData.offset = 0
    /\ \E offset \in 1..MaxGlitchOffset :
          imgData' = [imgData EXCEPT !.offset = offset,
                                     !.data = glitchData(imgData.copy, offset)]
    /\ UNCHANGED <<state, canvases, now, ws, lastOp, obs, log, snaps, gesture,
                   sharedBufferCanvas, screen>>

NextGlitch ==
    \/ GlitchGetImageData
    \/ GlitchApply

SpecGlitch == Init /\ [][NextGlitch]_vars

-----------------------------------------------------------------------------
(* Text layers *)

TextSetTool ==
    /\ ~InGesture
    /\ setTool({"move", "text"})

TextContent ==
    /\ ~InGesture
    /\ onChangeText(MaxTextCommits, {<<0>>, <<2, 2>>})

TextFontSize ==
    /\ ~InGesture
    /\ onChangeFontSize(MaxTextCommits, {30})

TextStrokeWidth ==
    /\ ~InGesture
    /\ onChangeTextStrokeWidth(MaxTextCommits, {2, -2})

NextText ==
    \/ TextSetTool
    \/ TextContent
    \/ TextFontSize
    \/ TextStrokeWidth
    \/ handleMouseDown(MaxTextCommits, MaxTextLayers,
                       {p \in PointerTargets : StartsGesture(p)})
    \/ handleMouseMove(MaxTextCommits)
    \/ handleMouseUp(MaxTextCommits)

SpecText == Init /\ [][NextText]_vars

----------------------------------------------------------------------------
(* Properties: the history *)

IsCommitStep == obs'.pushes > obs.pushes

\* C2: from the fresh history, after N <= 19 commits the k-th UNDO shows
\* the layer list of commit N-k (cursor N-k), and N UNDOs followed by N
\* REDOs give back the layer list and the cursor of before the UNDOs, with
\* every entry of the history in place.
UndoRedoRoundTrip ==
    obs.pushes <= HISTORY_LIMIT - 1 =>
        /\ obs.phase = "undos" =>
            /\ state.layers = log[(obs.pushes - obs.undos) + 1]
            /\ state.historyIndex = obs.pushes - obs.undos
        /\ (obs.phase = "redos" /\ obs.redos = obs.undos) =>
            /\ state.layers = log[obs.pushes + 1]
            /\ state.historyIndex = obs.pushes
            /\ state.history = log

UndoRedoRoundTripWitness ==
    /\ obs.phase = "redos"
    /\ obs.pushes = HISTORY_LIMIT - 1
    /\ obs.redos = obs.pushes
    /\ \A i, j \in 1..Len(log) : i # j => log[i] # log[j]

\* C3: a commit made while the cursor is not on the last entry discards
\* every entry beyond the cursor: the history becomes the entries up to the
\* cursor followed by the new entry, the cursor is on it, and REDO changes
\* nothing (commit, commit, undo, commit leaves 3 entries: the initial one
\* and 2 committed ones).
CommitPrunesRedoBranch ==
    [][(IsCommitStep /\ state.historyIndex < Len(state.history) - 1) =>
        /\ state'.history =
              Append(SubSeq(state.history, 1, state.historyIndex + 1), state'.layers)
        /\ Len(state'.history) = state.historyIndex + 2
        /\ state'.historyIndex = Len(state'.history) - 1
        /\ redo(state') = state']_vars

CommitPrunesRedoBranchWitness ==
    /\ obs.pushes = 3
    /\ obs.prunes = 1
    /\ lastOp.type = "UPDATE_LAYER"
    /\ Len(state.history) = 3
    /\ state.historyIndex = 2
    /\ state.history[2] # state.history[3]

\* C4: the history never holds more than 20 entries; a commit made with 20
\* entries and the cursor on the last one evicts exactly the oldest entry,
\* keeps the others in order and leaves the cursor on the new entry.
HistoryBounded ==
    /\ [](Len(state.history) <= 20)
    /\ [][(IsCommitStep /\ Len(state.history) = 20 /\ state.historyIndex = 19) =>
            /\ state'.history = Append(Tail(state.history), state'.layers)
            /\ state'.historyIndex = 19
            /\ state'.history[state'.historyIndex + 1] = state'.layers]_vars

HistoryBoundedWitness ==
    /\ obs.pushes = 21
    /\ obs.prunes = 0
    /\ lastOp.type = "UPDATE_LAYER"
    /\ Len(state.history) = 20
    /\ state.historyIndex = 19
    /\ state.history[1] # <<>>
    /\ \A i, j \in 1..Len(state.history) : i # j => state.history[i] # state.history[j]

\* C5: the cursor is always a valid index of the history, and the entry at
\* the cursor is the current layer list.
CursorValid ==
    /\ 0 <= state.historyIndex
    /\ state.historyIndex < Len(state.history)
    /\ state.history[state.historyIndex + 1] = state.layers

CursorValidWitness ==
    /\ lastOp.type = "UNDO"
    /\ state.historyIndex > 0
    /\ state.historyIndex < Len(state.history) - 1
    /\ state.layers # state.history[state.historyIndex + 2]

\* C6: UNDO with the cursor above 0 moves the cursor back by one and makes
\* the entry there the layer list, and at cursor 0 changes nothing; REDO
\* does the same forwards and changes nothing on the last entry; neither
\* changes the history.
UndoRedoFrame ==
    [][/\ lastOp'.type = "UNDO" =>
            /\ state'.history = state.history
            /\ IF state.historyIndex > 0
               THEN /\ state'.historyIndex = state.historyIndex - 1
                    /\ state'.layers = state.history[state.historyIndex]
               ELSE state' = state
       /\ lastOp'.type = "REDO" =>
            /\ state'.history = state.history
            /\ IF state.historyIndex < Len(state.history) - 1
               THEN /\ state'.historyIndex = state.historyIndex + 1
                    /\ state'.layers = state.history[state.historyIndex + 2]
               ELSE state' = state]_vars

UndoRedoFrameWitness ==
    /\ lastOp.type = "UNDO"
    /\ state.historyIndex > 0
    /\ state.historyIndex < Len(state.history) - 1
    /\ state.layers # state.history[state.historyIndex + 2]
    /\ Len(state.history) = 20

----------------------------------------------------------------------------
(* Properties: the layer list *)

\* C8: activeLayerId is null or the id of a layer of the current list.
ActiveLayerPresent ==
    \/ state.activeLayerId = NullId
    \/ state.activeLayerId \in LayerIds(state.layers)

DistinctIds(layers) ==
    \A i, j \in 1..Len(layers) : i # j => layers[i].id # layers[j].id

\* C9: REMOVE_LAYER of the active layer, whatever its index, makes the layer
\* now at index 0 the active one (none when the list is empty); REMOVE_LAYER
\* of another layer leaves activeLayerId as it is.  Stated for lists whose
\* ids are pairwise distinct.
RemoveFallsBackToTop ==
    [][(lastOp'.type = "REMOVE_LAYER" /\ DistinctIds(state.layers)) =>
        IF state.activeLayerId = lastOp'.id
        THEN state'.activeLayerId =
                (IF state'.layers = <<>> THEN NullId ELSE state'.layers[1].id)
        ELSE state'.activeLayerId = state.activeLayerId]_vars

\* C10: DUPLICATE_LAYER of a layer of the list puts at index 0 a copy at
\* (x+20, y+20) with the width, height, rotation, filters and effects of
\* the source, makes it the active layer and leaves the layers that were
\* there unchanged and in order behind it.
DuplicateCopies ==
    [][(lastOp'.type = "DUPLICATE_LAYER" /\ FindIndex(state.layers, lastOp'.id) # 0) =>
        LET src == state.layers[FindIndex(state.layers, lastOp'.id)]
            copy == state'.layers[1]
        IN  /\ Len(state'.layers) = Len(state.layers) + 1
            /\ copy.x = src.x + 20
            /\ copy.y = src.y + 20
            /\ copy.width = src.width
            /\ copy.height = src.height
            /\ copy.rotation = src.rotation
            /\ copy.filters = src.filters
            /\ copy.effects = src.effects
            /\ state'.activeLayerId = copy.id
            /\ Tail(state'.layers) = state.layers]_vars

DuplicateCopiesWitness ==
    /\ lastOp.type = "DUPLICATE_LAYER"
    /\ Len(state.layers) = 2
    /\ state.layers[1].x = state.layers[2].x + 20
    /\ state.layers[1].effects # DEFAULT_EFFECTS
    /\ state.layers[1].effects = state.layers[2].effects
    /\ state.activeLayerId = state.layers[1].id

----------------------------------------------------------------------------
(* Properties: the pointer gestures *)

\* C1: one pointer gesture (move, scale, rotate, warp-corner drag, brush or
\* eraser stroke) adds no history entry while the button is down, whatever
\* the number of pointer moves, and exactly one entry at the release.
\* gesture.base is the number of pushHistory calls when handleMouseDown
\* returned.
GestureCommitsOnce ==
    /\ (InGesture /\ gesture.kind # "none") => obs.pushes = gesture.base
    /\ (lastOp.type = "MOUSE_UP" /\ gesture.kind # "none") =>
            obs.pushes = gesture.base + 1

\* C7: a history entry does not change once it is pushed: the layers UNDO
\* or REDO restores show the raster content they showed when the entry was
\* pushed (snaps holds that content, entry by entry).
RestoredEntryUnchanged ==
    lastOp.type \in {"UNDO", "REDO"} =>
        Raster(state.layers, canvases) = snaps[state.historyIndex + 1]

----------------------------------------------------------------------------
(* Properties: identity and buffers of the layers *)

\* C11: the layers of the list have pairwise distinct ids, however close in
\* time the operations that created them are.
LayerIdsDistinct == DistinctIds(state.layers)

\* C12: no canvas is held by two layers of the list, and DUPLICATE_LAYER of
\* a layer that holds a canvas gives the copy a canvas of its own with the
\* pixel dimensions and the content of the source canvas, also when the
\* source layer was resized before.
DuplicateBufferIsDeepCopy ==
    /\ [](\A i, j \in 1..Len(state.layers) :
            (i # j /\ state.layers[i].imageElement # 0) =>
                state.layers[i].imageElement # state.layers[j].imageElement)
    /\ [][(/\ lastOp'.type = "DUPLICATE_LAYER"
           /\ FindIndex(state.layers, lastOp'.id) # 0
           /\ state.layers[FindIndex(state.layers, lastOp'.id)].imageElement # 0) =>
            LET src == state.layers[FindIndex(state.layers, lastOp'.id)].imageElement
                copy == state'.layers[1].imageElement
            IN  /\ copy # src
                /\ canvases'[src] = canvases[src]
                /\ canvases'[copy].width = canvases[src].width
                /\ canvases'[copy].height = canvases[src].height
                /\ canvases'[copy].ink = canvases[src].ink]_vars

----------------------------------------------------------------------------
(* Properties: canvas and geometry *)

\* C13: CROP_CANVAS with the rectangle (rx, ry, rw, rh) moves every layer to
\* (x - rx, y - ry), makes the canvas rw by rh and leaves the width, the
\* height, the rotation, the raster content and the order of the layers as
\* they are.
CropTranslates ==
    [][lastOp'.type = "CROP_CANVAS" =>
        LET r == lastOp'.rect
        IN  /\ state'.canvasSize = [width |-> r.width, height |-> r.height]
            /\ Len(state'.layers) = Len(state.layers)
            /\ canvases' = canvases
            /\ \A i \in 1..Len(state.layers) :
                    /\ state'.layers[i].id = state.layers[i].id
                    /\ state'.layers[i].x = state.layers[i].x - r.x
                    /\ state'.layers[i].y = state.layers[i].y - r.y
                    /\ state'.layers[i].width = state.layers[i].width
                    /\ state'.layers[i].height = state.layers[i].height
                    /\ state'.layers[i].rotation = state.layers[i].rotation
                    /\ state'.layers[i].imageElement = state.layers[i].imageElement]_vars

\* an 800x600 canvas with A at (0, 0) and its duplicate at (20, 20), cropped
\* to (100, 100, 400, 300)
CropTranslatesWitness ==
    /\ lastOp.type = "CROP_CANVAS"
    /\ lastOp.rect = [x |-> 100, y |-> 100, width |-> 400, height |-> 300]
    /\ state.canvasSize = [width |-> 400, height |-> 300]
    /\ Len(state.layers) = 2
    /\ state.layers[2].x = -100 /\ state.layers[2].y = -100
    /\ state.layers[1].x = -80 /\ state.layers[1].y = -80

\* C14: every layer has width > 0 and height > 0, during and after a scale
\* gesture too, wherever the pointer is.
LayerSizePositive ==
    \A i \in 1..Len(state.layers) :
        state.layers[i].width > 0 /\ state.layers[i].height > 0

\* C15: the width and height of every text layer are the measurement of its
\* current text under its current font size and stroke width.
TextBoxMeasured ==
    \A i \in 1..Len(state.layers) :
        state.layers[i].type = "text" =>
            LET l == state.layers[i]
                m == measureTextLayer(l.text, IF l.fontSize = 0 THEN 24 ELSE l.fontSize,
                                      l.textStrokeWidth)
            IN  l.width = m.width /\ l.height = m.height

\* C16: a layer operation that names an id absent from the layer list leaves
\* the layer sequence, the active layer id and the canvas size unchanged.
LayerOpTypes ==
    {"UPDATE_LAYER", "REMOVE_LAYER", "DUPLICATE_LAYER", "REORDER_LAYER",
     "SET_LAYER_FILTER", "UPDATE_LAYER_EFFECT"}

MissingIdIsNoOp ==
    [][(/\ lastOp'.type \in LayerOpTypes
        /\ FindIndex(state.layers, lastOp'.id) = 0)
       => /\ state'.layers = state.layers
          /\ state'.activeLayerId = state.activeLayerId
          /\ state'.canvasSize = state.canvasSize]_vars

\* C17: REORDER_LAYER of a listed layer swaps it with its neighbour (up is
\* towards the front of the list, down towards its end) and keeps every other
\* layer in place; at the boundary the order is unchanged; away from the
\* boundary, up followed by down gives the original order back.
Neighbour(i, direction) == IF direction = "up" THEN i - 1 ELSE i + 1

ReorderStep ==
    LET i == FindIndex(state.layers, lastOp'.id)
        j == Neighbour(i, lastOp'.direction)
    IN  (lastOp'.type = "REORDER_LAYER" /\ i # 0) =>
            /\ Len(state'.layers) = Len(state.layers)
            /\ {state'.layers[k] : k \in 1..Len(state'.layers)}
                  = {state.layers[k] : k \in 1..Len(state.layers)}
            /\ IF j \in 1..Len(state.layers)
               THEN /\ state'.layers[j] = state.layers[i]
                    /\ state'.layers[i] = state.layers[j]
                    /\ \A k \in 1..Len(state.layers) \ {i, j} :
                            state'.layers[k] = state.layers[k]
               ELSE state'.layers = state.layers

UpThenDownRestores ==
    \A i \in 2..Len(state.layers) :
        (FindIndex(state.layers, state.layers[i].id) = i) =>
            LET id == state.layers[i].id
                up == reducer(state, [type |-> "REORDER_LAYER", id |-> id,
                                      direction |-> "up"], Env(now))
                down == reducer(up, [type |-> "REORDER_LAYER", id |-> id,
                                     direction |-> "down"], Env(now))
            IN  /\ up.layers # state.layers \/ state.layers[i] = state.layers[i - 1]
                /\ down.layers = state.layers

ReorderSwapsNeighbours == [][ReorderStep]_vars /\ []UpThenDownRestores

ReorderSwapsNeighboursWitness ==
    /\ lastOp.type = "REORDER_LAYER"
    /\ lastOp.direction = "up"
    /\ Len(state.layers) = 3
    /\ DistinctIds(state.layers)
    /\ FindIndex(state.layers, lastOp.id) = 2
    /\ Len(state.history) >= 2
    /\ state.history[state.historyIndex][3].id = lastOp.id

\* C18: numeric input is never stored out of range: the canvas width and
\* height are at least 1 and the stroke width of a text layer is not negative.
InputsInRange ==
    /\ state.canvasSize.width >= 1
    /\ state.canvasSize.height >= 1
    /\ \A i \in 1..Len(state.layers) :
            state.layers[i].type = "text" => state.layers[i].textStrokeWidth >= 0

\* C19: the warp button on an image or drawing layer without a warp quad
\* sets the quad to the corners of the layer's box turned about the centre of
\* the box by the layer's rotation, each corner as far from the centre as
\* before; for rotation 0 the quad is (x,y), (x+w,y), (x,y+h), (x+w,y+h).
Dist2(p, q) == (p[1] - q[1]) * (p[1] - q[1]) + (p[2] - q[2]) * (p[2] - q[2])

WarpQuadStep ==
    LET i == FindIndex(state.layers, state.activeLayerId)
        l == state.layers[i]
        wp == state'.layers[i].warpPoints
        c2 == <<2 * l.x + l.width, 2 * l.y + l.height>>
    IN  (lastOp'.type = "WARP_TOOL" /\ l.warpPoints = <<>>) =>
            /\ wp # <<>>
            /\ <<wp.tl[1] + wp.br[1], wp.tl[2] + wp.br[2]>> = c2
            /\ <<wp.tr[1] + wp.bl[1], wp.tr[2] + wp.bl[2]>> = c2
            /\ <<wp.tr[1] - wp.tl[1], wp.tr[2] - wp.tl[2]>>
                  = <<l.width * Cos(l.rotation), l.width * Sin(l.rotation)>>
            /\ <<wp.bl[1] - wp.tl[1], wp.bl[2] - wp.tl[2]>>
                  = <<-l.height * Sin(l.rotation), l.height * Cos(l.rotation)>>
            /\ \A k \in {"tl", "tr", "bl", "br"} :
                    4 * Dist2(wp[k], Centre(l))
                      = l.width * l.width + l.height * l.height
            /\ l.rotation = 0 =>
                    wp = [tl |-> <<l.x, l.y>>,
                          tr |-> <<l.x + l.width, l.y>>,
                          bl |-> <<l.x, l.y + l.height>>,
                          br |-> <<l.x + l.width, l.y + l.height>>]

WarpQuadIsRotatedBox == [][WarpQuadStep]_vars

WarpQuadIsRotatedBoxWitness ==
    /\ lastOp.type = "WARP_TOOL"
    /\ state.tool = "warp"
    /\ \E i \in 1..Len(state.layers) :
        /\ state.layers[i].id = lastOp.id
        /\ state.layers[i].rotation = 90
        /\ state.layers[i].x = 0 /\ state.layers[i].y = 0
        /\ state.layers[i].width = 800 /\ state.layers[i].height = 600
        /\ state.layers[i].warpPoints # <<>>
        /\ state.layers[i].warpPoints.tl = <<700, -100>>
        /\ state.layers[i].warpPoints.br = <<100, 700>>

\* C20: a pointer move of a warp corner drag puts the dragged corner of the
\* active layer at the pointer and leaves its other three corners, its x, y,
\* width, height and rotation, and every layer of another id as they were.
WarpDragStep ==
    LET i == FindIndex(state.layers, state.activeLayerId)
        h == ws.activeHandle
    IN  (/\ lastOp'.type = "MOUSE_MOVE"
         /\ state.tool = "warp" /\ ws.isDragging
         /\ h \in {"tl", "tr", "bl", "br"}
         /\ i # 0
         /\ state.layers[i].warpPoints # <<>>) =>
            /\ Len(state'.layers) = Len(state.layers)
            /\ \A k \in 1..Len(state.layers) :
                  LET old == state.layers[k]
                      new == state'.layers[k]
                  IN  IF old.id = state.activeLayerId
                      THEN /\ new.warpPoints[h] = lastOp'.coords
                           /\ \A o \in {"tl", "tr", "bl", "br"} \ {h} :
                                 new.warpPoints[o] = state.layers[i].warpPoints[o]
                           /\ new.x = old.x /\ new.y = old.y
                           /\ new.width = old.width /\ new.height = old.height
                           /\ new.rotation = old.rotation
                      ELSE new = old

WarpDragMovesOneCorner == [][WarpDragStep]_vars

WarpDragMovesOneCornerWitness ==
    /\ lastOp.type = "MOUSE_MOVE"
    /\ state.tool = "warp" /\ ws.isDragging /\ ws.activeHandle = "br"
    /\ Len(state.layers) = 2
    /\ DistinctIds(state.layers)
    /\ \E i \in 1..2 :
        /\ state.layers[i].id = state.activeLayerId
        /\ state.layers[i].warpPoints # <<>>
        /\ state.layers[i].warpPoints.br = lastOp.coords
        /\ state.layers[i].warpPoints.br # <<800, 600>>
        /\ state.layers[i].warpPoints.tl = <<0, 0>>
        /\ state.layers[3 - i].warpPoints = <<>>

\* C21: what a render pass draws depends on the layers, their rasters and
\* the canvas size only: it is what renderCanvas draws for the same arguments
\* when no render came before (a new scratch canvas).
RenderIsPure ==
    (Rendered /\ screen.args # <<>>) =>
        screen.ink = renderCanvas(<<>>, state.layers, canvases,
                                  state.canvasSize.width,
                                  state.canvasSize.height).ink

\* C22: every render pass comes to its end, whatever effect parameters the
\* layers hold.
RenderCompletes == screen.done

RenderCompletesWitness ==
    /\ Rendered
    /\ lastOp.type = "RENDER"
    /\ \E i \in 1..Len(state.layers) :
        /\ state.layers[i].visible
        /\ state.layers[i].effects.scanlines.enabled
        /\ state.layers[i].effects.scanlines.spacing = 2
        /\ state.layers[i].effects.pixelate.enabled
        /\ [step |-> "scanlines", layer |-> state.layers[i].id]
              \in {screen.steps[k] : k \in 1..Len(screen.steps)}

\* C23: the glitch with offset k on a width x height picture takes the red
\* of (x, y) from (x - k, y) when x - k >= 0 and the blue from (x + k, y)
\* when x + k < width, and leaves every other byte as it was: no byte comes
\* from another row.
GlitchPixel(x, y, channel) == 4 * (y * imgData.width + x) + channel

GlitchStaysInRow ==
    (imgData # <<>> /\ imgData.offset >= 1) =>
        \A x \in 0..(imgData.width - 1), y \in 0..(imgData.height - 1) :
            LET k == imgData.offset
            IN  /\ ByteAt(imgData.data, GlitchPixel(x, y, 0)) =
                      IF x - k >= 0
                      THEN ByteAt(imgData.copy, GlitchPixel(x - k, y, 0))
                      ELSE ByteAt(imgData.copy, GlitchPixel(x, y, 0))
                /\ ByteAt(imgData.data, GlitchPixel(x, y, 2)) =
                      IF x + k < imgData.width
                      THEN ByteAt(imgData.copy, GlitchPixel(x + k, y, 2))
                      ELSE ByteAt(imgData.copy, GlitchPixel(x, y, 2))
                /\ ByteAt(imgData.data, GlitchPixel(x, y, 1)) =
                      ByteAt(imgData.copy, GlitchPixel(x, y, 1))
                /\ ByteAt(imgData.data, GlitchPixel(x, y, 3)) =
                      ByteAt(imgData.copy, GlitchPixel(x, y, 3))

\* C24: a warp quad that exists changes only in a pointer move of a warp
\* corner drag or in UNDO / REDO: the warp button, a move, scale or rotate
\* drag, CROP_CANVAS, DUPLICATE_LAYER and the filter and effect changes leave
\* the four corners of every layer that stays in the list as they were.
QuadKeptStep ==
    (DistinctIds(state.layers) /\ DistinctIds(state'.layers)) =>
        \A i \in 1..Len(state.layers), k \in 1..Len(state'.layers) :
            (/\ state.layers[i].id = state'.layers[k].id
             /\ state.layers[i].warpPoints # <<>>
             /\ state'.layers[k].warpPoints # state.layers[i].warpPoints)
            => \/ lastOp'.type \in {"UNDO", "REDO"}
               \/ /\ lastOp'.type = "MOUSE_MOVE"
                  /\ state.tool = "warp" /\ ws.isDragging
                  /\ ws.activeHandle \in {"tl", "tr", "bl", "br"}
                  /\ state.layers[i].id = state.activeLayerId

QuadChangesOnlyByCornerDrag == [][QuadKeptStep]_vars

\* a crop moved a layer that holds a quad
QuadChangesOnlyByCornerDragWitness ==
    /\ lastOp.type = "CROP_CANVAS"
    /\ \E i \in 1..Len(state.layers) :
        LET l == state.layers[i]
        IN  /\ l.warpPoints # <<>>
            /\ l.x = -100 /\ l.y = -100
            /\ l.warpPoints.tl = <<0, 0>>
            /\ l.warpPoints.br = <<800, 600>>

\* C25: a render pass takes the layers from the last of the list to the
\* first (layer 1 is blended last) and passes over the hidden ones; for a
\* visible layer it clears the scratch canvas, draws the layer, applies
\* pixelate, glitch, vignette and scanlines, each when enabled, in this
\* order, and blends the scratch canvas with the opacity and the drop shadow
\* of the layer.
PipelineOf(l) ==
    LET on(name) == IF l.effects[name].enabled
                    THEN <<[step |-> name, layer |-> l.id]>> ELSE <<>>
    IN  IF ~l.visible THEN <<>>
        ELSE <<[step |-> "clear", layer |-> l.id],
               [step |-> "draw", layer |-> l.id]>>
             \o on("pixelate") \o on("glitch") \o on("vignette")
             \o on("scanlines")
             \o <<[step |-> "blend", layer |-> l.id]>>

RECURSIVE PipelineFrom(_, _)
PipelineFrom(layers, i) ==
    IF i = 0 THEN <<>>
    ELSE PipelineOf(layers[i]) \o PipelineFrom(layers, i - 1)

RECURSIVE BlendedFrom(_, _)
BlendedFrom(layers, i) ==
    IF i = 0 THEN <<>>
    ELSE (IF layers[i].visible
          THEN <<[layer |-> layers[i].id, opacity |-> layers[i].opacity]>>
          ELSE <<>>) \o BlendedFrom(layers, i - 1)

RenderPipelineOrder ==
    Rendered =>
        /\ screen.steps = PipelineFrom(state.layers, Len(state.layers))
        /\ [k \in 1..Len(screen.ink) |->
              [layer |-> screen.ink[k].layer, opacity |-> screen.ink[k].opacity]]
           = BlendedFrom(state.layers, Len(state.layers))

RenderPipelineOrderWitness ==
    /\ Rendered
    /\ lastOp.type = "RENDER"
    /\ Len(state.layers) = 2
    /\ state.layers[1].id # state.layers[2].id
    /\ state.layers[1].visible /\ state.layers[2].visible
    /\ state.layers[1].effects.glitch.enabled
    /\ state.layers[1].effects.vignette.enabled
    /\ Len(screen.ink) = 2
    /\ screen.ink[2].layer = state.layers[1].id
    /\ screen.steps[Len(screen.steps)] =
          [step |-> "blend", layer |-> state.layers[1].id]

\* C26: from one render pass to the next the scratch canvas gets neither
\* narrower nor lower, and after getBuffer(w, h) it is at least w wide and h
\* high.
BufferGrowsStep ==
    sharedBufferCanvas # <<>> =>
        /\ sharedBufferCanvas'.width >= sharedBufferCanvas.width
        /\ sharedBufferCanvas'.height >= sharedBufferCanvas.height

BufferHoldsTheDocument ==
    (Rendered /\ sharedBufferCanvas # <<>>) =>
        /\ sharedBufferCanvas.width >= state.canvasSize.width
        /\ sharedBufferCanvas.height >= state.canvasSize.height

BufferNeverShrinks == [][BufferGrowsStep]_vars /\ []BufferHoldsTheDocument

\* C27: the source rectangle of every cell of a warped layer lies inside the
\* source image: 0 <= s_x, 0 <= s_y, s_x + s_w <= width, s_y + s_h <= height.
WarpSourceInsideImage ==
    \A i \in 1..Len(state.layers) :
        LET l == state.layers[i]
        IN  (/\ l.warpPoints # <<>>
             /\ l.imageElement # 0
             /\ canvases[l.imageElement].width % GRID_SIZE = 0
             /\ canvases[l.imageElement].height % GRID_SIZE = 0)
            => \A s \in warpSources(canvases[l.imageElement].width,
                                    canvases[l.imageElement].height) :
                  /\ 0 <= s.s_x /\ 0 <= s.s_y
                  /\ s.s_x + s.s_w <= canvases[l.imageElement].width
                  /\ s.s_y + s.s_h <= canvases[l.imageElement].height

\* C28: a layer operation that leaves the layer list as it was adds no
\* history entry: the history and its cursor are the same before and after.
UnchangedListKeepsHistory ==
    [][(/\ DistinctIds(state.layers)
        /\ state'.layers = state.layers
        /\ \/ /\ lastOp'.type = "REORDER_LAYER"
              /\ FindIndex(state.layers, lastOp'.id) # 0
           \/ /\ lastOp'.type \in LayerOpTypes \ {"REORDER_LAYER"}
              /\ FindIndex(state.layers, lastOp'.id) = 0)
       => /\ state'.history = state.history
          /\ state'.historyIndex = state.historyIndex]_vars

\* C29: UNDO and REDO leave the size of the canvas as it is and put the
\* layers of the history entry the cursor moves to into the list: after a
\* crop or a resize, UNDO brings the earlier positions back under the new
\* size.
UndoRedoKeepCanvasStep ==
    lastOp'.type \in {"UNDO", "REDO"} =>
        /\ state'.canvasSize = state.canvasSize
        /\ state'.historyIndex # state.historyIndex =>
              state'.layers = state.history[state'.historyIndex + 1]

UndoRedoKeepCanvas == [][UndoRedoKeepCanvasStep]_vars

\* a layer added at (0, 0), the canvas cropped to (100, 100, 400, 300), UNDO
UndoRedoKeepCanvasWitness ==
    /\ lastOp.type = "UNDO"
    /\ state.canvasSize = [width |-> 400, height |-> 300]
    /\ Len(state.layers) = 1
    /\ state.layers[1].x = 0 /\ state.layers[1].y = 0
    /\ state.historyIndex = 1
    /\ Len(state.history) = 3
    /\ state.history[3][1].x = -100 /\ state.history[3][1].y = -100

\* C30: a pointer event leaves the position, the size, the rotation, the
\* warp quad and the raster of every locked layer as they were.
LockedLayerKeptStep ==
    (/\ lastOp'.type \in {"MOUSE_DOWN", "MOUSE_MOVE", "MOUSE_UP"}
     /\ DistinctIds(state.layers))
    => \A i \in 1..Len(state.layers) :
          state.layers[i].locked =>
              \E k \in 1..Len(state'.layers) :
                  LET old == state.layers[i]
                      new == state'.layers[k]
                  IN  /\ new.id = old.id
                      /\ new.x = old.x /\ new.y = old.y
                      /\ new.width = old.width /\ new.height = old.height
                      /\ new.rotation = old.rotation
                      /\ new.warpPoints = old.warpPoints
                      /\ new.imageElement = old.imageElement
                      /\ old.imageElement # 0 =>
                            canvases'[new.imageElement].ink =
                               canvases[old.imageElement].ink

LockedLayerKept == [][LockedLayerKeptStep]_vars

====
